---- MODULE Spec2Model ----
(***************************************************************************)
(* One client connection of the unified server: the receive loop of        *)
(* server.rs, the PTY handler of pty/mod.rs with one reader task per       *)
(* session, the voice handler of voice/mod.rs with its background tasks,   *)
(* and the two recorder objects of voice/audio.                            *)
(*                                                                         *)
(* The transport sink is a serialized stream.  The model records what      *)
(* crosses it as projections: ptyOut[s] is the subsequence of frames that  *)
(* carry session id s, voiceOut the subsequence of voice-module envelopes  *)
(* sent by the voice handler and its tasks, reply the error envelope the   *)
(* receive loop sent for the frame it handled last.                        *)
(***************************************************************************)
EXTENDS Integers, Sequences, FiniteSets, TLC

\* ------------------------------------------------------------------ bounds
MaxSessions == 2
MaxReads == 2
MaxRead == 4
MaxRecordings == 2
MaxLevels == 1
MaxPartials == 1
MaxAudio == 2
MaxInput == 2

SessionIds == 1..MaxSessions

\* constants of the streaming recorder (voice/audio/streaming.rs)
CHUNK_SAMPLES == 3200
CHUNK_CHANNEL_BUFFER == 50
VAD_HANGOVER_CHUNKS == 3

\* PtySession::new(80, 24, ...): the window size every session starts with
DefaultSize == <<80, 24>>

VARIABLES
    connPc,      \* position of handle_connection / the handler it is awaiting
    cur,         \* session the receive loop is working on (0: none)
    sinkOk,      \* FALSE once sends on the transport sink fail
    reply,       \* envelope the loop sent in answer to the last frame it handled
    sessions,    \* PtyHandler.sessions: keys of the session table
    nextId,      \* session ids issued so far + 1
    child,       \* per session: child process "none" | "alive" | "dead"
    reader,      \* per session: reader task "none" | "read" (in its loop) | "done"
    readSeq,     \* per session: number of non-empty reads returned so far
    ptyOut,      \* per session: frames for that session that crossed the sink
    drained,     \* cleanup_all: entries drained from the table, not yet joined
    eofSeen,     \* history: sessions whose reader saw a zero-length read
    cleaned,     \* history: sessions cleanup_all drained and joined
    \* ---- VoiceHandler: ConnectionState (voice/mod.rs)
    asr_config,          \* NoConfig or the stored ASRConfig
    is_recording,
    recording_mode,      \* "none" | "press" | "toggle"
    recorder,            \* TRUE: Some(AudioRecorder)
    streaming_recorder,  \* TRUE: Some(StreamingRecorder)
    realtime_task,       \* TRUE: Some(JoinHandle) of the task rt[gen]
    stop_signal,         \* TRUE: Some(oneshot sender)
    audio_level_tx,      \* TRUE: Some(sender of the level channel of recording gen)
    \* ---- voice background tasks
    gen,         \* start_recording calls that passed the already-recording check
    rt,          \* realtime task of recording gen: "none" | "running" | "success" |
                 \* "failed" | "panicked" | "joined" | "aborted"
    fwd,         \* level forwarder of recording gen: "none" | "running" | "done"
    levelQ,      \* level events queued in the level channel of recording gen
    staleRt,     \* TRUE: a realtime task of an earlier recording is still running
    staleLevels, \* level events still queued for forwarders of earlier recordings
    stopRealtime, \* handle_stop_recording: is_realtime_mode of the stop in progress
    stopAudio,   \* handle_stop_recording: audio_data, "none" | "empty" | "data"
    voiceOut,    \* voice envelopes that crossed the sink since the last
                 \* start_recording that passed the check, in order
    \* ---- AudioRecorder (voice/audio/recorder.rs)
    rec_is_recording,
    rec_recording_mode,
    rec_stream,      \* TRUE: Some(Stream)
    rec_audio,       \* samples in audio_data, counted in callbacks
    rec_result,      \* result of the last call on the recorder
    \* ---- StreamingRecorder (voice/audio/streaming.rs)
    str_is_recording,
    str_recording_mode,
    str_stream,
    str_chunk_sender,  \* TRUE: Some(chunk_tx)
    str_audio,         \* samples in full_audio_data, counted in callbacks
    str_result,
    pending,           \* number of samples in pending_samples
    vad_hangover,      \* chunks still sent after the last active one
    str_chunks,        \* the chunks queued on the chunk channel of the
                       \* current capture, in order
    str_blocks,        \* history: blocks the VAD classified in this capture
    str_active_seen,   \* history: one of them was classified active
    full_audio_data,   \* the data of the callbacks kept by the streaming
                       \* recorder, one element for each callback's slice
    str_quiet,         \* history: blocks classified non-active since the last
                       \* active one (since the start when there was none)
    \* ---- terminal side of the PTY sessions
    ptyIn,       \* raw text frames written to a PTY as input
    size,        \* per session: window size <<cols, rows>> of the PTY
    \* ---- values handed to the validation and to the envelope codec
    val_cfg,     \* ASRConfig given to ASRConfig::validate (NoConfig: none yet)
    val_result,  \* its result, "none" before the call
    sent,        \* ServerResponse given to send_response (NoEnvelope: none yet)
    wire,        \* its JSON text: the set of members of the object
    parsed,      \* what parse_message makes of that text
    frame_read,  \* a read of a PTY reader: session id and the bytes read
                 \* (NoRead: none yet)
    frame,       \* the binary frame built from that read, <<>> for none
    \* ---- the tasks of a connection as users of its locks
    task_pc,     \* per task: <<code it is running, operations done>>, Idle between
    held,        \* per lock: the task holding it, "none" when free
    hold_sends,  \* sends on the sink since the sink lock was last acquired
    partials     \* per recording: detached partial-text sender tasks spawned
                 \* for it that have not sent yet

connVars == <<connPc, cur, sinkOk, reply>>
ptyVars == <<sessions, nextId, child, reader, readSeq, ptyOut, drained, eofSeen,
             cleaned>>
voiceVars == <<asr_config, is_recording, recording_mode, recorder, streaming_recorder,
               realtime_task, stop_signal, audio_level_tx, gen, rt, fwd, levelQ,
               staleRt, staleLevels, stopRealtime, stopAudio, voiceOut>>
chunkVars == <<pending, vad_hangover, str_chunks, str_blocks, str_active_seen,
               str_quiet, full_audio_data>>
recVars == <<rec_is_recording, rec_recording_mode, rec_stream, rec_audio, rec_result>>
strVars == <<str_is_recording, str_recording_mode, str_stream, str_chunk_sender,
             str_audio, str_result, chunkVars>>
termVars == <<ptyIn, size>>
pureVars == <<val_cfg, val_result, sent, wire, parsed, frame_read, frame>>
lockVars == <<task_pc, held, hold_sends, partials>>
vars == <<connVars, ptyVars, voiceVars, recVars, strVars, termVars, pureVars,
          lockVars>>

\* ----------------------------------------------------------- helper operators
Count(seq, x) == Cardinality({i \in 1..Len(seq) : seq[i] = x})

RECURSIVE SumUpTo(_, _)
SumUpTo(f, n) == IF n = 0 THEN 0 ELSE f[n] + SumUpTo(f, n - 1)

\* non-empty reads returned so far, over all sessions
TotalReads == SumUpTo(readSeq, MaxSessions)

\* sessions for which PtySession::new succeeded at some point
created == {s \in SessionIds : child[s] # "none"}

\* send_response / sender.send on the shared sink: the message crosses the
\* sink iff the transport still accepts sends
SinkSend(log, m) == IF sinkOk THEN Append(log, m) ELSE log

NoReply == <<>>

\* the tasks of a connection and the locks they take: the sink lock, the
\* handlers' sender slot, the session table, a session, its reader and its
\* writer, and the voice state
Tasks == {"receive_loop", "pty_reader", "level_forwarder", "partial_sender",
          "realtime_task"}
Locks == {"sink", "ws_sender", "sessions", "session", "reader", "writer", "state"}
Idle == <<"idle", 0>>
\* a spawned task whose future has completed
Done == <<"done", 0>>

\* no ServerResponse / ModuleMessage yet, and the Err of serde_json
NoEnvelope == [none |-> TRUE]
JsonError == [error |-> "JsonError"]
NoRead == [none |-> TRUE]

\* variant of the operator below, departing from the code
ErrorReplyNone(module, message) == NoReply

\* create_error_response(module, ModuleError(message)) followed by
\* send_response: every handler error is a ModuleError, so the envelope's code
\* is MODULE_ERROR and the handler's text is its message
ErrorReply(module, message) ==
    IF sinkOk THEN <<module, "error", "MODULE_ERROR", message>> ELSE NoReply

\* ------------------------------------------------- ASR configuration (config.rs)
NoConfig == [none |-> TRUE]
NoKey == "none"      \* Option::None; "" is Some of the empty string

ProviderConfig(provider, mode, dashscope, app, token, siliconflow) ==
    [provider |-> provider, mode |-> mode, dashscope_api_key |-> dashscope,
     app_id |-> app, access_token |-> token, siliconflow_api_key |-> siliconflow]

NoProvider == [provider |-> "none"]

Missing(k) == k = NoKey \/ k = ""

\* variant of the operator below, departing from the code
ValidateKeysOnly(c) ==
    CASE c.provider = "qwen" ->
           IF Missing(c.dashscope_api_key) THEN "MissingApiKey" ELSE "ok"
      [] c.provider = "doubao" ->
           IF Missing(c.app_id) THEN "MissingApiKey"
           ELSE IF Missing(c.access_token) THEN "MissingApiKey" ELSE "ok"
      [] c.provider = "sensevoice" ->
           IF Missing(c.siliconflow_api_key) THEN "MissingApiKey" ELSE "ok"

\* ASRProviderConfig::validate
ValidateProvider(c) ==
    CASE c.provider = "qwen" ->
           IF Missing(c.dashscope_api_key) THEN "MissingApiKey" ELSE "ok"
      [] c.provider = "doubao" ->
           IF Missing(c.app_id) THEN "MissingApiKey"
           ELSE IF Missing(c.access_token) THEN "MissingApiKey" ELSE "ok"
      [] c.provider = "sensevoice" ->
           IF Missing(c.siliconflow_api_key) THEN "MissingApiKey"
           ELSE IF c.mode # "http" THEN "UnsupportedMode" ELSE "ok"

\* ASRConfig::validate: the primary, then the fallback when there is one
ValidateASRConfig(cfg) ==
    IF ValidateProvider(cfg.primary) # "ok" THEN ValidateProvider(cfg.primary)
    ELSE IF cfg.fallback # NoProvider THEN ValidateProvider(cfg.fallback)
    ELSE "ok"

\* every provider configuration over three key values: absent, empty, present
Providers == {"qwen", "doubao", "sensevoice"}
ASRModes == {"http", "realtime"}
Keys == {NoKey, "", "k"}
ProviderConfigs ==
    [provider : Providers, mode : ASRModes, dashscope_api_key : Keys,
     app_id : Keys, access_token : Keys, siliconflow_api_key : Keys]
ASRConfigs ==
    [primary : ProviderConfigs, fallback : ProviderConfigs \cup {NoProvider},
     enable_fallback : BOOLEAN]

\* ASRConfig::validate called once on an arbitrary configuration
Validate(cfg) ==
    /\ val_result = "none"
    /\ val_cfg' = cfg
    /\ val_result' = ValidateASRConfig(cfg)
    /\ UNCHANGED <<sent, wire, parsed, frame_read, frame>>
    /\ UNCHANGED <<connVars, ptyVars, voiceVars, recVars, strVars, termVars, lockVars>>

\* the asr_config values clients send in this model
QwenHttp == [primary |-> ProviderConfig("qwen", "http", "k", NoKey, NoKey, NoKey),
             fallback |-> NoProvider, enable_fallback |-> FALSE]
DoubaoRealtime ==
    [primary |-> ProviderConfig("doubao", "realtime", NoKey, "k", "k", NoKey),
     fallback |-> ProviderConfig("sensevoice", "http", NoKey, NoKey, NoKey, "k"),
     enable_fallback |-> TRUE]
QwenHttpNoKey == [primary |-> ProviderConfig("qwen", "http", NoKey, NoKey, NoKey, NoKey),
                  fallback |-> NoProvider, enable_fallback |-> FALSE]
SenseVoiceRealtime ==
    [primary |-> ProviderConfig("sensevoice", "realtime", NoKey, NoKey, NoKey, "k"),
     fallback |-> NoProvider, enable_fallback |-> FALSE]

Configs == {QwenHttp, DoubaoRealtime, QwenHttpNoKey, SenseVoiceRealtime}
Modes == {"press", "toggle"}

\* ------------------------------------------------------------------- Init
Init ==
    /\ connPc = "recv"
    /\ cur = 0
    /\ sinkOk = TRUE
    /\ reply = NoReply
    /\ sessions = {}
    /\ nextId = 1
    /\ child = [s \in SessionIds |-> "none"]
    /\ reader = [s \in SessionIds |-> "none"]
    /\ readSeq = [s \in SessionIds |-> 0]
    /\ ptyOut = [s \in SessionIds |-> <<>>]
    /\ drained = {}
    /\ eofSeen = {}
    /\ cleaned = {}
    /\ asr_config = NoConfig
    /\ is_recording = FALSE
    /\ recording_mode = "none"
    /\ recorder = FALSE
    /\ streaming_recorder = FALSE
    /\ realtime_task = FALSE
    /\ stop_signal = FALSE
    /\ audio_level_tx = FALSE
    /\ gen = 0
    /\ rt = "none"
    /\ fwd = "none"
    /\ levelQ = 0
    /\ staleRt = FALSE
    /\ staleLevels = 0
    /\ stopRealtime = FALSE
    /\ stopAudio = "none"
    /\ voiceOut = <<>>
    /\ rec_is_recording = FALSE
    /\ rec_recording_mode = "none"
    /\ rec_stream = FALSE
    /\ rec_audio = 0
    /\ rec_result = "none"
    /\ str_is_recording = FALSE
    /\ str_recording_mode = "none"
    /\ str_stream = FALSE
    /\ str_chunk_sender = FALSE
    /\ str_audio = 0
    /\ str_result = "none"
    /\ pending = 0
    /\ vad_hangover = 0
    /\ str_chunks = <<>>
    /\ str_blocks = 0
    /\ str_active_seen = FALSE
    /\ str_quiet = 0
    /\ full_audio_data = <<>>
    /\ ptyIn = 0
    /\ size = [s \in SessionIds |-> DefaultSize]
    /\ val_cfg = NoConfig
    /\ val_result = "none"
    /\ sent = NoEnvelope
    /\ wire = {}
    /\ parsed = NoEnvelope
    /\ frame_read = NoRead
    /\ frame = <<>>
    /\ task_pc = [t \in Tasks |-> Idle]
    /\ held = [l \in Locks |-> "none"]
    /\ hold_sends = 0
    /\ partials = [g \in 1..MaxRecordings |-> 0]

\* =========================================================================
\* PTY handler (pty/mod.rs)
\* =========================================================================

\* variants of the operators below, each departing from the code in one place
UuidReused == IF nextId > 1 THEN nextId - 1 ELSE nextId
JoinReadyAtOnce(s) == TRUE
OutputFrameFirst(s, n) == <<"out", s, 1>>
KillNothing(s) == child
JoinReadyNever(s) == FALSE
ReaderNextIgnoresSend(outcome) == IF outcome = "data" THEN "read" ELSE "done"
FrameWholeBuffer(session_id, data, n) ==
    <<Len(session_id) % 256>> \o session_id \o data

\* Uuid::new_v4(): a version-4 UUID; the generator's contract is that it does
\* not return an id it returned before
UuidNewV4 == nextId

\* session.kill(): terminates the child (an error for an already dead child
\* is ignored by the callers)
Kill(s) == [child EXCEPT ![s] = "dead"]

\* task.await on the reader's JoinHandle returns once the task has finished
JoinReady(s) == reader[s] = "done"

\* the text envelopes of a session (their session_id is the index of ptyOut)
InitComplete == <<"init_complete">>
Exit == <<"exit", 0>>

\* the frame built from non-empty read number n of session s:
\* [len][session_id][data]
OutputFrame(s, n) == <<"out", s, n>>

\* the reader's loop after one iteration: it goes on only after data was read
\* and sent
ReaderNext(outcome) == IF outcome = "data" /\ sinkOk THEN "read" ELSE "done"

\* let mut local_buf = vec![0u8; 8192]
READ_BUFFER == 8192

\* Uuid::new_v4().to_string(): the hyphenated form, 36 ASCII characters
UuidStrings ==
    {[i \in 1..36 |-> IF i \in {9, 14, 19, 24} THEN "-" ELSE IF i = 15 THEN "4" ELSE c] :
        c \in {"0", "f"}}

\* what reader.read(&mut local_buf) can put in the buffer: every short run of
\* bytes, and runs that fill it or leave one byte free
ReadData ==
    UNION {[1..k -> {0, 10, 255}] : k \in 0..MaxRead}
    \cup {[i \in 1..k |-> b] : k \in {READ_BUFFER - 1, READ_BUFFER}, b \in {0, 10, 255}}

\* local_buf after a read that returned these bytes: the rest stays zero
LocalBuf(bytes) == bytes \o [i \in 1..(READ_BUFFER - Len(bytes)) |-> 0]

\* session_id_bytes.len() as u8
SessionIdLen(session_id) == Len(session_id) % 256

\* frame.push(session_id_len); frame.extend_from_slice(session_id_bytes);
\* frame.extend_from_slice(&data[..n])
Frame(session_id, data, n) ==
    <<SessionIdLen(session_id)>> \o session_id \o SubSeq(data, 1, n)

\* one iteration of the reader's loop on a read of these bytes: a frame is
\* built only for n > 0
BuildFrame(session_id, bytes) ==
    /\ frame_read = NoRead
    /\ frame_read' = [session_id |-> session_id, bytes |-> bytes]
    /\ frame' = IF Len(bytes) > 0
                THEN Frame(session_id, LocalBuf(bytes), Len(bytes))
                ELSE <<>>
    /\ UNCHANGED <<val_cfg, val_result, sent, wire, parsed>>
    /\ UNCHANGED <<connVars, ptyVars, voiceVars, recVars, strVars, termVars, lockVars>>

\* handle_init up to the table insert: PtySession::new, start_read_task
\* (tokio::spawn of the reader), sessions.insert.  A spawn failure returns
\* ModuleError and the loop sends the error envelope.
PtyInit ==
    /\ connPc = "recv"
    /\ \E spawnOk \in BOOLEAN :
         IF spawnOk
         THEN /\ UuidNewV4 \in SessionIds
              /\ LET s == UuidNewV4 IN
                   /\ child' = [child EXCEPT ![s] = "alive"]
                   /\ reader' = [reader EXCEPT ![s] = "read"]
                   /\ readSeq' = [readSeq EXCEPT ![s] = 0]
                   /\ sessions' = sessions \cup {s}
                   /\ cur' = s
              /\ nextId' = nextId + 1
              /\ connPc' = "init_respond"
              /\ reply' = NoReply
         ELSE /\ reply' = ErrorReply("pty", "spawn failed")
              /\ UNCHANGED <<connPc, cur, child, reader, readSeq, sessions, nextId>>
    /\ UNCHANGED <<sinkOk, ptyOut, drained, eofSeen, cleaned>>
    /\ UNCHANGED <<voiceVars, recVars, strVars, termVars, pureVars, lockVars>>

\* handle_text_message: send_response(init_complete { session_id })
InitRespond ==
    /\ connPc = "init_respond"
    /\ ptyOut' = [ptyOut EXCEPT ![cur] = SinkSend(@, InitComplete)]
    /\ connPc' = "recv"
    /\ cur' = 0
    /\ UNCHANGED <<sinkOk, reply, sessions, nextId, child, reader,
                   readSeq, drained, eofSeen, cleaned>>
    /\ UNCHANGED <<voiceVars, recVars, strVars, termVars, pureVars, lockVars>>

\* handle_destroy up to the await: sessions.remove, kill; a missing id is
\* SESSION_NOT_FOUND
PtyDestroy(s) ==
    /\ connPc = "recv"
    /\ IF s \in sessions
       THEN /\ sessions' = sessions \ {s}
            /\ child' = Kill(s)
            /\ connPc' = "destroy_wait"
            /\ cur' = s
            /\ reply' = NoReply
       ELSE /\ reply' = ErrorReply("pty", "SESSION_NOT_FOUND")
            /\ UNCHANGED <<sessions, child, connPc, cur>>
    /\ UNCHANGED <<sinkOk, nextId, reader, readSeq, ptyOut, drained, eofSeen, cleaned>>
    /\ UNCHANGED <<voiceVars, recVars, strVars, termVars, pureVars, lockVars>>

\* handle_destroy: task.await, then Ok(()) and no response
DestroyAwait ==
    /\ connPc = "destroy_wait"
    /\ JoinReady(cur)
    /\ connPc' = "recv"
    /\ cur' = 0
    /\ UNCHANGED <<sinkOk, reply, sessions, nextId, child, reader,
                   readSeq, ptyOut, drained, eofSeen, cleaned>>
    /\ UNCHANGED <<voiceVars, recVars, strVars, termVars, pureVars, lockVars>>

\* reader task: one iteration of the loop.  The spawn_blocking read returns
\* data (also what a dead child left buffered), an I/O error, or a
\* zero-length read once the child is gone: killed by the handler, or exited
\* on its own, which only this read observes.  Data is sent as a binary
\* frame and the loop goes on unless the send fails; a zero-length read sends
\* the exit envelope and ends the task; an error ends the task.
ReaderIteration(s) ==
    /\ reader[s] = "read"
    /\ \E outcome \in {"data", "eof", "err"} :
         /\ outcome = "data" => TotalReads < MaxReads
         /\ readSeq' = [readSeq EXCEPT ![s] = IF outcome = "data" THEN @ + 1 ELSE @]
         /\ ptyOut' = [ptyOut EXCEPT ![s] =
                          CASE outcome = "data" -> SinkSend(@, OutputFrame(s, readSeq[s] + 1))
                            [] outcome = "eof" -> SinkSend(@, Exit)
                            [] outcome = "err" -> @]
         /\ child' = IF outcome = "eof" THEN [child EXCEPT ![s] = "dead"] ELSE child
         /\ eofSeen' = IF outcome = "eof" THEN eofSeen \cup {s} ELSE eofSeen
         /\ reader' = [reader EXCEPT ![s] = ReaderNext(outcome)]
    /\ UNCHANGED <<connVars, sessions, nextId, drained, cleaned>>
    /\ UNCHANGED <<voiceVars, recVars, strVars, termVars, pureVars, lockVars>>

\* cleanup_all: one iteration of the drain loop up to the await
CleanupKill(s) ==
    /\ connPc = "cleanup_pty"
    /\ cur = 0
    /\ s \in drained
    /\ child' = Kill(s)
    /\ cur' = s
    /\ UNCHANGED <<connPc, sinkOk, reply, sessions, nextId, reader,
                   readSeq, ptyOut, drained, eofSeen, cleaned>>
    /\ UNCHANGED <<voiceVars, recVars, strVars, termVars, pureVars, lockVars>>

\* cleanup_all: task.await of the current entry
CleanupAwait ==
    /\ connPc = "cleanup_pty"
    /\ cur # 0
    /\ JoinReady(cur)
    /\ drained' = drained \ {cur}
    /\ cleaned' = cleaned \cup {cur}
    /\ cur' = 0
    /\ UNCHANGED <<connPc, sinkOk, reply, sessions, nextId, child,
                   reader, readSeq, ptyOut, eofSeen>>
    /\ UNCHANGED <<voiceVars, recVars, strVars, termVars, pureVars, lockVars>>

\* cleanup_all returns when the drain iterator is exhausted
CleanupAllReturn ==
    /\ connPc = "cleanup_pty"
    /\ cur = 0
    /\ drained = {}
    /\ connPc' = "cleanup_voice"
    /\ UNCHANGED <<cur, sinkOk, reply, ptyVars>>
    /\ UNCHANGED <<voiceVars, recVars, strVars, termVars, pureVars, lockVars>>

\* =========================================================================
\* Recorder objects (voice/audio/recorder.rs, streaming.rs, mod.rs)
\* =========================================================================

\* what the audio host does during one start call, in the order the code
\* meets it: no input device, no default config, an unsupported sample
\* format, build_input_stream failing, play failing
DeviceOutcomes == {"ok", "no_device", "config_error", "bad_format",
                   "build_error", "play_error"}

\* the Err a start call returns for each device outcome
StartResult(dev) ==
    CASE dev = "ok" -> "ok"
      [] dev = "no_device" -> "MicrophoneUnavailable"
      [] dev = "config_error" -> "DeviceError"
      [] dev = "bad_format" -> "UnsupportedSampleFormat"
      [] dev = "build_error" -> "DeviceError"
      [] dev = "play_error" -> "DeviceError"

DeviceErrors == {"MicrophoneUnavailable", "DeviceError", "UnsupportedSampleFormat"}

\* AudioRecorder::start
RecStart(mode, dev) ==
    /\ IF rec_is_recording
       THEN /\ rec_result' = "AlreadyRecording"
            /\ UNCHANGED <<rec_is_recording, rec_recording_mode, rec_stream, rec_audio>>
       ELSE /\ rec_audio' = 0
            /\ rec_is_recording' = TRUE
            /\ rec_recording_mode' = mode
            /\ rec_stream' = IF StartResult(dev) = "ok" THEN TRUE ELSE rec_stream
            /\ rec_result' = StartResult(dev)
    /\ UNCHANGED <<connVars, ptyVars, voiceVars, strVars, termVars, pureVars, lockVars>>

\* handle_audio_callback: the stream delivers samples while is_recording
RecCallback ==
    /\ rec_stream
    /\ rec_is_recording
    /\ rec_audio < MaxAudio
    /\ rec_audio' = rec_audio + 1
    /\ UNCHANGED <<rec_is_recording, rec_recording_mode, rec_stream, rec_result>>
    /\ UNCHANGED <<connVars, ptyVars, voiceVars, strVars, termVars, pureVars, lockVars>>

\* AudioRecorder::stop
RecStop ==
    /\ IF ~rec_is_recording
       THEN /\ rec_result' = "NotRecording"
            /\ UNCHANGED <<rec_is_recording, rec_recording_mode, rec_stream, rec_audio>>
       ELSE /\ rec_is_recording' = FALSE
            /\ rec_recording_mode' = "none"
            /\ rec_stream' = FALSE
            /\ rec_result' = IF rec_audio = 0 THEN "ok_empty" ELSE "ok_audio"
            /\ UNCHANGED rec_audio
    /\ UNCHANGED <<connVars, ptyVars, voiceVars, strVars, termVars, pureVars, lockVars>>

\* AudioRecorder::cancel
RecCancel ==
    /\ rec_is_recording' = FALSE
    /\ rec_recording_mode' = "none"
    /\ rec_stream' = FALSE
    /\ rec_audio' = 0
    /\ rec_result' = "cancelled"
    /\ UNCHANGED <<connVars, ptyVars, voiceVars, strVars, termVars, pureVars, lockVars>>

\* StreamingRecorder::start_streaming
StrStart(mode, dev) ==
    /\ IF str_is_recording
       THEN /\ str_result' = "AlreadyRecording"
            /\ UNCHANGED <<str_is_recording, str_recording_mode, str_stream,
                           str_chunk_sender, str_audio, chunkVars>>
       ELSE /\ str_audio' = 0
            /\ str_is_recording' = TRUE
            /\ str_recording_mode' = mode
            /\ vad_hangover' = 0
            /\ str_chunk_sender' = TRUE
            /\ str_chunks' = <<>>
            /\ str_blocks' = 0
            /\ str_active_seen' = FALSE
            /\ str_quiet' = 0
            /\ full_audio_data' = <<>>
            /\ str_stream' = IF StartResult(dev) = "ok" THEN TRUE ELSE str_stream
            /\ pending' = IF StartResult(dev) = "ok" THEN 0 ELSE pending
            /\ str_result' = StartResult(dev)
    /\ UNCHANGED <<connVars, ptyVars, voiceVars, recVars, termVars, pureVars, lockVars>>

\* variants of the chunking steps used to test the properties below
KeepLast(buf, data) == <<data>>
DrainAll(p) == p
SkipNever(is_active, hangover) == FALSE

\* numbers of samples one callback adds to pending_samples (the length of the
\* data after to_mono and resample)
CallbackSizes ==
    {1, CHUNK_SAMPLES - 1, CHUNK_SAMPLES, 2 * CHUNK_SAMPLES + 1,
     (CHUNK_CHANNEL_BUFFER + 1) * CHUNK_SAMPLES}

\* the results of is_voice_active on the k blocks one callback completes: any
\* for a few blocks; a callback that fills the channel is all voice or all
\* silence
Classifications(k) ==
    IF k < CHUNK_CHANNEL_BUFFER
    THEN [1..k -> BOOLEAN]
    ELSE {[i \in 1..k |-> b] : b \in BOOLEAN}

\* variant of the test below, departing from the code
ChannelNeverFull(chan) == FALSE

\* pending.drain(..CHUNK_SAMPLES) on a buffer of p >= CHUNK_SAMPLES samples:
\* the length of the chunk taken
DrainChunk(p) == CHUNK_SAMPLES
\* full_audio_data.extend_from_slice(data)
ExtendFromSlice(buf, data) == Append(buf, data)

\* the chunk is dropped: !is_active && *hangover == 0
Skip(is_active, hangover) == ~is_active /\ hangover = 0

\* else if *hangover > 0 { *hangover -= 1 }, on a hangover read once
Decrement(h) == CHOOSE d \in {IF v > 0 THEN v - 1 ELSE v : v \in {h}} : TRUE

\* chunk_tx.try_send(chunk_data).is_err(): the bounded chunk channel is full
ChannelFull(chan) == Len(chan) >= CHUNK_CHANNEL_BUFFER

\* the while loop of handle_streaming_callback on a pending buffer of p samples;
\* act[i] is is_voice_active of the i-th block taken (an RMS threshold on the
\* samples of that block); a chunk carries its samples and a timestamp, here
\* the number of the block in the capture
RECURSIVE DrainLoop(_, _, _, _, _)
DrainLoop(p, h, chan, act, i) ==
    IF p < CHUNK_SAMPLES
    THEN [pending |-> p, hangover |-> h, chunks |-> chan]
    ELSE LET chunk == [samples |-> DrainChunk(p), timestamp |-> str_blocks + i]
             is_active == act[i]
             hangover == IF is_active THEN VAD_HANGOVER_CHUNKS ELSE Decrement(h)
         IN  IF Skip(is_active, hangover)
             THEN DrainLoop(p - chunk.samples, hangover, chan, act, i + 1)
             ELSE IF ChannelFull(chan)
             THEN DrainLoop(p - chunk.samples, hangover, chan, act, i + 1)
             ELSE DrainLoop(p - chunk.samples, hangover, Append(chan, chunk),
                            act, i + 1)

\* the non-active blocks at the end of the classifications act, added to q
\* when none of them is active
QuietAfter(q, act) ==
    IF \E i \in 1..Len(act) : act[i]
    THEN Len(act) - (CHOOSE i \in 1..Len(act) :
                        act[i] /\ \A j \in (i + 1)..Len(act) : ~act[j])
    ELSE q + Len(act)

\* handle_streaming_callback with n samples: they are kept in full_audio_data
\* and appended to pending_samples, which is then cut into chunks
StrCallback(n, act) ==
    /\ str_stream
    /\ str_is_recording
    /\ str_audio < MaxAudio
    /\ str_audio' = str_audio + 1
    /\ LET r == DrainLoop(pending + n, vad_hangover, str_chunks, act, 1)
       IN  /\ pending' = r.pending
           /\ vad_hangover' = r.hangover
           /\ str_chunks' = r.chunks
    /\ str_blocks' = str_blocks + Len(act)
    /\ str_active_seen' = (str_active_seen \/ \E i \in 1..Len(act) : act[i])
    /\ str_quiet' = QuietAfter(str_quiet, act)
    /\ full_audio_data' = ExtendFromSlice(full_audio_data, n)
    /\ UNCHANGED <<str_is_recording, str_recording_mode, str_stream,
                   str_chunk_sender, str_result>>
    /\ UNCHANGED <<connVars, ptyVars, voiceVars, recVars, termVars, pureVars, lockVars>>

\* StreamingRecorder::stop_streaming
StrStop ==
    /\ IF ~str_is_recording
       THEN /\ str_result' = "NotRecording"
            /\ UNCHANGED <<str_is_recording, str_recording_mode, str_stream,
                           str_chunk_sender, str_audio>>
       ELSE /\ str_is_recording' = FALSE
            /\ str_recording_mode' = "none"
            /\ str_stream' = FALSE
            /\ str_chunk_sender' = FALSE
            /\ str_result' = IF str_audio = 0 THEN "ok_empty" ELSE "ok_audio"
            /\ UNCHANGED str_audio
    /\ UNCHANGED chunkVars
    /\ UNCHANGED <<connVars, ptyVars, voiceVars, recVars, termVars, pureVars, lockVars>>

\* StreamingRecorder::cancel
StrCancel ==
    /\ str_is_recording' = FALSE
    /\ str_recording_mode' = "none"
    /\ str_stream' = FALSE
    /\ str_chunk_sender' = FALSE
    /\ str_audio' = 0
    /\ str_result' = "cancelled"
    /\ full_audio_data' = <<>>
    /\ UNCHANGED <<pending, vad_hangover, str_chunks, str_blocks, str_active_seen,
                   str_quiet>>
    /\ UNCHANGED <<connVars, ptyVars, voiceVars, recVars, termVars, pureVars, lockVars>>

\* =========================================================================
\* Voice handler (voice/mod.rs)
\* =========================================================================

\* variant of the cancelled message, departing from the code
CancelledAsError == <<"error", "CANCELLED">>

\* payloads of the voice envelopes
Started == <<"recording_state", "started">>
Stopped == <<"recording_state", "stopped">>
Cancelled == <<"recording_state", "cancelled">>
AudioLevel == <<"audio_level">>
\* transcription_progress of recording g (the envelope does not carry g)
Progress(g) == <<"transcription_progress", g>>
Complete(engine, used_fallback) == <<"transcription_complete", engine, used_fallback>>
\* a transcription path returned Err
TranscriptionFailed == <<"error", "TRANSCRIPTION_FAILED">>

\* ParallelFallbackStrategy::transcribe: the primary engine answers, or the
\* enabled fallback engine answers, or both fail
StrategyOutcomes(cfg) ==
    {Complete(cfg.primary.provider, FALSE), TranscriptionFailed}
    \cup (IF cfg.enable_fallback /\ cfg.fallback # NoProvider
          THEN {Complete(cfg.fallback.provider, TRUE)} ELSE {})

\* perform_transcription: validate, then the strategy
PerformTranscription(cfg) ==
    IF ValidateASRConfig(cfg) # "ok" THEN {TranscriptionFailed}
    ELSE StrategyOutcomes(cfg)

\* format!("{}-http", engine.name())
HttpName(name) ==
    CASE name = "qwen" -> "qwen-http"
      [] name = "doubao" -> "doubao-http"
      [] name = "sensevoice" -> "sensevoice-http"

\* perform_fallback_transcription: empty audio gives engine "none"; else the
\* enabled fallback engine, else the primary engine forced to HTTP mode
PerformFallbackTranscription(audio, cfg) ==
    IF audio = "empty" THEN {Complete("none", TRUE)}
    ELSE IF cfg.enable_fallback /\ cfg.fallback # NoProvider
    THEN {Complete(cfg.fallback.provider, TRUE), TranscriptionFailed}
    ELSE {Complete(HttpName(cfg.primary.provider), TRUE), TranscriptionFailed}

\* variant of the operator below, departing from the code
ChanOpenAlways == TRUE

\* the level channel of the current recording still has a sender: the handler's copy or
\* the copy inside the level callback of a live recorder
ChanOpen == audio_level_tx \/ recorder \/ streaming_recorder

\* variant of the abort below, departing from the code
AbortNothing == rt

\* task_handle.abort() on the realtime task of the current recording
Abort == IF realtime_task /\ rt = "running" THEN "aborted" ELSE rt

\* variant of the check below, departing from the code
NotRecordingNever == FALSE

\* the check that opens handle_start_recording
AlreadyRecording == is_recording

\* the check that opens handle_stop_recording and handle_cancel_recording
NotRecording == ~is_recording

\* handle_start_recording up to the forwarder spawn
VoiceStart(mode, cfg) ==
    /\ connPc = "recv"
    /\ IF AlreadyRecording
       THEN /\ reply' = ErrorReply("voice", "already recording")
            /\ UNCHANGED <<connPc, voiceVars>>
       ELSE /\ gen < MaxRecordings
            /\ asr_config' = cfg
            /\ is_recording' = TRUE
            /\ recording_mode' = mode
            /\ audio_level_tx' = TRUE
            /\ gen' = gen + 1
            /\ voiceOut' = <<>>
            /\ staleRt' = (staleRt \/ rt = "running")
            /\ staleLevels' = staleLevels + (IF fwd = "running" THEN levelQ ELSE 0)
            /\ levelQ' = 0
            /\ \E dev \in DeviceOutcomes :
                 IF StartResult(dev) # "ok"
                 THEN /\ reply' = ErrorReply("voice", "start failed")
                      /\ rt' = "none"
                      /\ fwd' = "none"
                      /\ UNCHANGED <<connPc, recorder, streaming_recorder,
                                     realtime_task, stop_signal>>
                 ELSE /\ IF cfg.primary.mode = "realtime"
                         THEN /\ streaming_recorder' = TRUE
                              /\ realtime_task' = TRUE
                              /\ stop_signal' = TRUE
                              /\ rt' = "running"
                              /\ UNCHANGED recorder
                         ELSE /\ recorder' = TRUE
                              /\ rt' = "none"
                              /\ UNCHANGED <<streaming_recorder, realtime_task,
                                             stop_signal>>
                      /\ fwd' = "running"
                      /\ connPc' = "start_send_started"
                      /\ reply' = NoReply
            /\ UNCHANGED <<stopRealtime, stopAudio>>
    /\ UNCHANGED <<cur, sinkOk, ptyVars, recVars, strVars, termVars, pureVars, lockVars>>

\* handle_start_recording: send_message(recording_state started); a failed
\* send is the handler's error, whose envelope cannot be sent either
VoiceStartSend ==
    /\ connPc = "start_send_started"
    /\ voiceOut' = SinkSend(voiceOut, Started)
    /\ connPc' = "recv"
    /\ reply' = IF sinkOk THEN NoReply ELSE ErrorReply("voice", "send failed")
    /\ UNCHANGED <<asr_config, is_recording, recording_mode, recorder,
                   streaming_recorder, realtime_task, stop_signal, audio_level_tx,
                   gen, rt, fwd, levelQ, staleRt, staleLevels, stopRealtime, stopAudio>>
    /\ UNCHANGED <<cur, sinkOk, ptyVars, recVars, strVars, termVars, pureVars, lockVars>>

\* handle_stop_recording up to drop(state): the recorder is stopped and
\* returns the audio it captured
VoiceStop ==
    /\ connPc = "recv"
    /\ IF NotRecording
       THEN /\ reply' = ErrorReply("voice", "not recording")
            /\ UNCHANGED <<connPc, voiceVars>>
       ELSE /\ audio_level_tx' = FALSE
            /\ IF streaming_recorder \/ recorder
               THEN /\ stopRealtime' = streaming_recorder
                    /\ stop_signal' = IF streaming_recorder THEN FALSE ELSE stop_signal
                    /\ realtime_task' = IF streaming_recorder THEN FALSE ELSE realtime_task
                    /\ \E audio \in {"empty", "data"} : stopAudio' = audio
                    /\ is_recording' = FALSE
                    /\ recording_mode' = "none"
                    /\ streaming_recorder' = FALSE
                    /\ recorder' = IF streaming_recorder THEN recorder ELSE FALSE
                    /\ connPc' = "stop_send_stopped"
                    /\ reply' = NoReply
               ELSE /\ reply' = ErrorReply("voice", "recorder not initialised")
                    /\ UNCHANGED <<connPc, stopRealtime, stopAudio, stop_signal,
                                   realtime_task, is_recording, recording_mode,
                                   streaming_recorder, recorder>>
            /\ UNCHANGED <<asr_config, gen, rt, fwd, levelQ, staleRt, staleLevels,
                           voiceOut>>
    /\ UNCHANGED <<cur, sinkOk, ptyVars, recVars, strVars, termVars, pureVars, lockVars>>

\* handle_stop_recording: send_message(recording_state stopped)?; on a failed
\* send the handler returns and the task handle it took is dropped
VoiceStopSend ==
    /\ connPc = "stop_send_stopped"
    /\ voiceOut' = SinkSend(voiceOut, Stopped)
    /\ connPc' = IF sinkOk THEN "stop_finish" ELSE "recv"
    /\ reply' = IF sinkOk THEN NoReply ELSE ErrorReply("voice", "send failed")
    /\ stopRealtime' = IF sinkOk THEN stopRealtime ELSE FALSE
    /\ stopAudio' = IF sinkOk THEN stopAudio ELSE "none"
    /\ UNCHANGED <<asr_config, is_recording, recording_mode, recorder,
                   streaming_recorder, realtime_task, stop_signal, audio_level_tx,
                   gen, rt, fwd, levelQ, staleRt, staleLevels>>
    /\ UNCHANGED <<cur, sinkOk, ptyVars, recVars, strVars, termVars, pureVars, lockVars>>

\* variant of the await below, departing from the code
RtJoinReadyAtOnce == TRUE

\* task_handle.await of the realtime task returns once the task has ended
RtJoinReady == rt \in {"success", "failed", "panicked"}

\* the error envelope of a failed transcription: code TRANSCRIPTION_FAILED and
\* the error texts its message is formatted from
FailedMessage(realtime_part, error) ==
    <<"error", "TRANSCRIPTION_FAILED", realtime_part, error>>

\* what the realtime branch's message says of the realtime task: the error of
\* a Failed result, or a fixed text when the task panicked (the JoinError is
\* only logged)
RealtimePart == IF rt = "failed" THEN "realtime_error" ELSE "task_abnormal"

\* handle_stop_recording: the realtime branch awaits the task and falls back
\* when it failed or panicked; the HTTP branch transcribes non-empty audio;
\* the terminal message is then sent
VoiceStopFinish ==
    /\ connPc = "stop_finish"
    /\ stopRealtime => RtJoinReady
    /\ rt' = IF stopRealtime THEN "joined" ELSE rt
    /\ \E res \in (IF stopRealtime
                   THEN IF rt = "success"
                        THEN {Complete(asr_config.primary.provider, FALSE)}
                        ELSE PerformFallbackTranscription(stopAudio, asr_config)
                   ELSE IF stopAudio = "empty"
                        THEN {Complete("none", FALSE)}
                        ELSE PerformTranscription(asr_config)) :
         voiceOut' = SinkSend(voiceOut,
                              IF res # TranscriptionFailed THEN res
                              ELSE IF stopRealtime
                                   THEN FailedMessage(RealtimePart, "fallback_error")
                                   ELSE FailedMessage("none", "asr_error"))
    /\ connPc' = "recv"
    /\ reply' = IF sinkOk THEN NoReply ELSE ErrorReply("voice", "send failed")
    /\ stopRealtime' = FALSE
    /\ stopAudio' = "none"
    /\ UNCHANGED <<asr_config, is_recording, recording_mode, recorder,
                   streaming_recorder, realtime_task, stop_signal, audio_level_tx,
                   gen, fwd, levelQ, staleRt, staleLevels>>
    /\ UNCHANGED <<cur, sinkOk, ptyVars, recVars, strVars, termVars, pureVars, lockVars>>

\* handle_cancel_recording up to drop(state)
VoiceCancel ==
    /\ connPc = "recv"
    /\ IF NotRecording
       THEN /\ reply' = ErrorReply("voice", "not recording")
            /\ UNCHANGED <<connPc, voiceVars>>
       ELSE /\ audio_level_tx' = FALSE
            /\ IF streaming_recorder
               THEN /\ rt' = Abort
                    /\ streaming_recorder' = FALSE
                    /\ realtime_task' = FALSE
                    /\ stop_signal' = FALSE
                    /\ UNCHANGED recorder
               ELSE /\ recorder' = FALSE
                    /\ UNCHANGED <<rt, streaming_recorder, realtime_task, stop_signal>>
            /\ is_recording' = FALSE
            /\ recording_mode' = "none"
            /\ connPc' = "cancel_send"
            /\ reply' = NoReply
            /\ UNCHANGED <<asr_config, gen, fwd, levelQ, staleRt, staleLevels,
                           stopRealtime, stopAudio, voiceOut>>
    /\ UNCHANGED <<cur, sinkOk, ptyVars, recVars, strVars, termVars, pureVars, lockVars>>

\* handle_cancel_recording: send_message(recording_state cancelled)
VoiceCancelSend ==
    /\ connPc = "cancel_send"
    /\ voiceOut' = SinkSend(voiceOut, Cancelled)
    /\ connPc' = "recv"
    /\ reply' = IF sinkOk THEN NoReply ELSE ErrorReply("voice", "send failed")
    /\ UNCHANGED <<asr_config, is_recording, recording_mode, recorder,
                   streaming_recorder, realtime_task, stop_signal, audio_level_tx,
                   gen, rt, fwd, levelQ, staleRt, staleLevels, stopRealtime, stopAudio>>
    /\ UNCHANGED <<cur, sinkOk, ptyVars, recVars, strVars, termVars, pureVars, lockVars>>

\* variant of the assignment below, departing from the code
KeepConfig(cfg) == asr_config

\* state.asr_config = Some(asr_config)
SomeConfig(cfg) == cfg

\* handle_update_config
VoiceUpdateConfig(cfg) ==
    /\ connPc = "recv"
    /\ asr_config' = SomeConfig(cfg)
    /\ reply' = NoReply
    /\ UNCHANGED <<is_recording, recording_mode, recorder, streaming_recorder,
                   realtime_task, stop_signal, audio_level_tx, gen, rt, fwd,
                   levelQ, staleRt, staleLevels, stopRealtime, stopAudio, voiceOut>>
    /\ UNCHANGED <<connPc, cur, sinkOk, ptyVars, recVars, strVars, termVars, pureVars, lockVars>>

\* level callback of the live recorder: tx.send(AudioLevelData)
LevelCallback ==
    /\ recorder \/ streaming_recorder
    /\ fwd = "running"
    /\ levelQ + staleLevels + Count(voiceOut, AudioLevel) < MaxLevels
    /\ levelQ' = levelQ + 1
    /\ UNCHANGED <<asr_config, is_recording, recording_mode, recorder,
                   streaming_recorder, realtime_task, stop_signal, audio_level_tx,
                   gen, rt, fwd, staleRt, staleLevels, stopRealtime, stopAudio,
                   voiceOut>>
    /\ UNCHANGED <<connVars, ptyVars, recVars, strVars, termVars, pureVars, lockVars>>

\* level forwarder: recv one level and send audio_level; a failed send ends
\* the task and drops the receiver with what is queued
ForwarderSend ==
    /\ fwd = "running"
    /\ levelQ > 0
    /\ voiceOut' = SinkSend(voiceOut, AudioLevel)
    /\ levelQ' = IF sinkOk THEN levelQ - 1 ELSE 0
    /\ fwd' = IF sinkOk THEN "running" ELSE "done"
    /\ UNCHANGED <<asr_config, is_recording, recording_mode, recorder,
                   streaming_recorder, realtime_task, stop_signal, audio_level_tx,
                   gen, rt, staleRt, staleLevels, stopRealtime, stopAudio>>
    /\ UNCHANGED <<connVars, ptyVars, recVars, strVars, termVars, pureVars, lockVars>>

\* level forwarder: recv returns None once the channel is empty and closed
ForwarderExit ==
    /\ fwd = "running"
    /\ levelQ = 0
    /\ ~ChanOpen
    /\ fwd' = "done"
    /\ UNCHANGED <<asr_config, is_recording, recording_mode, recorder,
                   streaming_recorder, realtime_task, stop_signal, audio_level_tx,
                   gen, rt, levelQ, staleRt, staleLevels, stopRealtime, stopAudio,
                   voiceOut>>
    /\ UNCHANGED <<connVars, ptyVars, recVars, strVars, termVars, pureVars, lockVars>>

\* the forwarder of an earlier recording, whose channel is closed, drains
\* what is still queued
StaleForwarderSend ==
    /\ staleLevels > 0
    /\ voiceOut' = SinkSend(voiceOut, AudioLevel)
    /\ staleLevels' = IF sinkOk THEN staleLevels - 1 ELSE 0
    /\ UNCHANGED <<asr_config, is_recording, recording_mode, recorder,
                   streaming_recorder, realtime_task, stop_signal, audio_level_tx,
                   gen, rt, fwd, levelQ, staleRt, stopRealtime, stopAudio>>
    /\ UNCHANGED <<connVars, ptyVars, recVars, strVars, termVars, pureVars, lockVars>>

\* realtime transcription task: run_with_details returns Success or Failed,
\* or the task panics
RtFinish ==
    /\ rt = "running"
    /\ \E outcome \in {"success", "failed", "panicked"} : rt' = outcome
    /\ UNCHANGED <<asr_config, is_recording, recording_mode, recorder,
                   streaming_recorder, realtime_task, stop_signal, audio_level_tx,
                   gen, fwd, levelQ, staleRt, staleLevels, stopRealtime, stopAudio,
                   voiceOut>>
    /\ UNCHANGED <<connVars, ptyVars, recVars, strVars, termVars, pureVars, lockVars>>

\* the realtime task of the current recording has a partial text: the
\* partial_callback spawns a detached task that will send it
RtPartial ==
    /\ rt = "running"
    /\ partials[gen] + Count(voiceOut, Progress(gen)) < MaxPartials
    /\ partials' = [partials EXCEPT ![gen] = @ + 1]
    /\ UNCHANGED <<task_pc, held, hold_sends>>
    /\ UNCHANGED <<connVars, ptyVars, voiceVars, recVars, strVars, termVars, pureVars>>

\* a detached task spawned by the partial_callback of recording g: it locks
\* the sink, sends transcription_progress and ends, ignoring a failed send
PartialSend(g) ==
    /\ partials[g] > 0
    /\ partials' = [partials EXCEPT ![g] = @ - 1]
    /\ voiceOut' = SinkSend(voiceOut, Progress(g))
    /\ UNCHANGED <<asr_config, is_recording, recording_mode, recorder,
                   streaming_recorder, realtime_task, stop_signal, audio_level_tx,
                   gen, rt, fwd, levelQ, staleRt, staleLevels, stopRealtime, stopAudio>>
    /\ UNCHANGED <<task_pc, held, hold_sends>>
    /\ UNCHANGED <<connVars, ptyVars, recVars, strVars, termVars, pureVars>>

\* a realtime task of an earlier recording, whose handle was dropped, ends
StaleRtFinish ==
    /\ staleRt
    /\ staleRt' = FALSE
    /\ UNCHANGED <<asr_config, is_recording, recording_mode, recorder,
                   streaming_recorder, realtime_task, stop_signal, audio_level_tx,
                   gen, rt, fwd, levelQ, staleLevels, stopRealtime, stopAudio,
                   voiceOut>>
    /\ UNCHANGED <<connVars, ptyVars, recVars, strVars, termVars, pureVars, lockVars>>

\* =========================================================================
\* Connection loop (server.rs)
\* =========================================================================

\* the transport's send side breaks (peer gone)
TransportFail ==
    /\ sinkOk
    /\ connPc \notin {"returned", "returned_err"}
    /\ sinkOk' = FALSE
    /\ UNCHANGED <<connPc, cur, reply, ptyVars>>
    /\ UNCHANGED <<voiceVars, recVars, strVars, termVars, pureVars, lockVars>>

\* Message::Ping: sender.send(Pong).await? -- a failed send returns from
\* handle_connection at once
RecvPing ==
    /\ connPc = "recv"
    /\ connPc' = IF sinkOk THEN "recv" ELSE "returned_err"
    /\ reply' = NoReply
    /\ UNCHANGED <<cur, sinkOk, ptyVars>>
    /\ UNCHANGED <<voiceVars, recVars, strVars, termVars, pureVars, lockVars>>

\* Message::Close, a receive error or the end of the stream leave the loop;
\* the PTY cleanup runs when the handler has sessions
RecvClose ==
    /\ connPc = "recv"
    /\ IF sessions # {}
       THEN /\ drained' = sessions
            /\ sessions' = {}
            /\ connPc' = "cleanup_pty"
       ELSE /\ connPc' = "cleanup_voice"
            /\ UNCHANGED <<drained, sessions>>
    /\ UNCHANGED <<cur, sinkOk, reply, nextId, child, reader, readSeq,
                   ptyOut, eofSeen, cleaned>>
    /\ UNCHANGED <<voiceVars, recVars, strVars, termVars, pureVars, lockVars>>

\* voice_handler().cleanup(), llm and utils cleanup, then Ok(())
VoiceCleanup ==
    /\ connPc = "cleanup_voice"
    /\ is_recording' = FALSE
    /\ recording_mode' = "none"
    /\ stop_signal' = FALSE
    /\ rt' = Abort
    /\ realtime_task' = FALSE
    /\ streaming_recorder' = FALSE
    /\ recorder' = FALSE
    /\ audio_level_tx' = FALSE
    /\ connPc' = "returned"
    /\ UNCHANGED <<asr_config, gen, fwd, levelQ, staleRt, staleLevels,
                   stopRealtime, stopAudio, voiceOut>>
    /\ UNCHANGED <<cur, sinkOk, reply, ptyVars, recVars, strVars, termVars, pureVars, lockVars>>

\* =========================================================================
\* Text frames (server.rs handle_text_message, router.rs, PtyHandler::handle)
\* =========================================================================

\* variants of the operators below, departing from the code
ExtractModuleUtils(f) == "utils"
RouteToUtils(module) == "utils_handler"
ResizeAll(s, sz) == [t \in SessionIds |-> sz]

ModuleTypes == {"pty", "voice", "llm", "utils"}

\* a text frame, by what the parser and the handlers read of it: whether it is
\* JSON, its "module" field ("other": a string that names no module, "absent":
\* no such field or not a string) and its "type" field
Frames ==
    {[json |-> FALSE, module |-> "absent", type |-> "absent"]} \cup
    [json : {TRUE}, module : ModuleTypes \cup {"other", "absent"},
     type : {"absent", "env", "detect_language"}]

\* parse_message: serde reads ModuleMessage { module: ModuleType, type: String }
ParseMessage(f) ==
    IF f.json /\ f.module \in ModuleTypes /\ f.type # "absent" THEN "ok" ELSE "err"

\* extract_module_from_json
ExtractModule(f) ==
    IF f.json /\ f.module # "absent"
    THEN CASE f.module = "pty" -> "pty"
           [] f.module = "voice" -> "voice"
           [] f.module = "llm" -> "llm"
           [] f.module = "utils" -> "utils"
           [] OTHER -> "utils"
    ELSE "utils"

\* create_parse_error_response followed by send_response
ParseErrorReply(module) ==
    IF sinkOk THEN <<module, "error", "PARSE_ERROR", "parse failed">> ELSE NoReply

\* pty_handler().is_initialized(): the handler has a session
IsInitialized == sessions # {}

\* handle_text_message, Err arm of parse_message: the raw text goes to the PTY
\* when the handler has a session (a failed write is only logged), else a
\* PARSE_ERROR envelope is sent
RecvUnparsable(f) ==
    /\ connPc = "recv"
    /\ ParseMessage(f) = "err"
    /\ IF IsInitialized
       THEN /\ ptyIn < MaxInput
            /\ ptyIn' = ptyIn + 1
            /\ reply' = NoReply
       ELSE /\ reply' = ParseErrorReply(ExtractModule(f))
            /\ UNCHANGED ptyIn
    /\ UNCHANGED <<connPc, cur, sinkOk, ptyVars, size>>
    /\ UNCHANGED <<voiceVars, recVars, strVars, pureVars, lockVars>>

\* route: the match on msg.module
Route(module) ==
    CASE module = "pty" -> "pty_handler"
      [] module = "voice" -> "voice_handler"
      [] module = "llm" -> "llm_handler"
      [] module = "utils" -> "utils_handler"

\* what a handler returns: Ok(Some(response)), Ok(None) or Err(ModuleError)
Some(module, type) == <<"some", module, type>>
None == <<"none">>
Err(message) == <<"err", message>>

\* PtyHandler::handle for the types that name no session
PtyHandle(f) ==
    IF f.type = "env" THEN {None} ELSE {Err("unknown pty type")}

\* VoiceHandler::handle for a type it does not know
VoiceHandle(f) == {Err("unknown voice type")}

\* UtilsHandler::handle
UtilsHandle(f) ==
    IF f.type = "detect_language"
    THEN {Some("utils", "language_detected"), Err("invalid detect_language request")}
    ELSE {Err("unknown utils type")}

\* the LLM handler, by ModuleHandler::handle's return type: a response,
\* nothing, or an error
LlmHandle(f) == {Some("llm", "llm_response"), None, Err("llm error")}

HandlerResult(handler, f) ==
    CASE handler = "pty_handler" -> PtyHandle(f)
      [] handler = "voice_handler" -> VoiceHandle(f)
      [] handler = "llm_handler" -> LlmHandle(f)
      [] handler = "utils_handler" -> UtilsHandle(f)

\* handle_text_message, the match on route's result
SendResult(module, res) ==
    CASE res[1] = "some" -> IF sinkOk THEN <<res[2], res[3], "", "">> ELSE NoReply
      [] res[1] = "none" -> NoReply
      [] res[1] = "err" -> ErrorReply(module, res[2])

\* handle_text_message, Ok arm of parse_message, for the handlers that keep no
\* state
RecvEnvelope(f) ==
    /\ connPc = "recv"
    /\ ParseMessage(f) = "ok"
    /\ \E res \in HandlerResult(Route(f.module), f) :
           reply' = SendResult(f.module, res)
    /\ UNCHANGED <<connPc, cur, sinkOk, ptyVars, termVars, pureVars, lockVars>>
    /\ UNCHANGED <<voiceVars, recVars, strVars, pureVars, lockVars>>

\* window sizes a resize message asks for
Sizes == {DefaultSize, <<120, 40>>}

\* PtySession::resize: master.resize succeeds or returns an error
ResizeOutcomes == BOOLEAN

\* PtySession::resize: the window size of session s becomes sz
Resize(s, sz) == [size EXCEPT ![s] = sz]

\* PtyHandler::handle "resize" with a session_id, and handle_resize
PtyResize(s, sz) ==
    /\ connPc = "recv"
    /\ IF s \in sessions
       THEN \E ok \in ResizeOutcomes :
                IF ok
                THEN /\ size' = Resize(s, sz)
                     /\ reply' = NoReply
                ELSE /\ reply' = ErrorReply("pty", "resize failed")
                     /\ UNCHANGED size
       ELSE /\ reply' = ErrorReply("pty", "SESSION_NOT_FOUND")
            /\ UNCHANGED size
    /\ UNCHANGED <<connPc, cur, sinkOk, ptyVars, ptyIn>>
    /\ UNCHANGED <<voiceVars, recVars, strVars, pureVars, lockVars>>

\* =========================================================================
\* Envelope codec (router.rs, server.rs)
\* =========================================================================
\* variant of the operator below, departing from the code
VariantName(v) == v

\* enum ModuleType and its serde names (rename_all = "snake_case")
Variants == {"Pty", "Voice", "Llm", "Utils"}
SnakeCase(v) ==
    CASE v = "Pty" -> "pty"
      [] v = "Voice" -> "voice"
      [] v = "Llm" -> "llm"
      [] v = "Utils" -> "utils"

\* Deserialize of ModuleType: the variant a name stands for
ModuleNames == {"pty", "voice", "llm", "utils"}
VariantOf(name) ==
    CASE name = "pty" -> "Pty"
      [] name = "voice" -> "Voice"
      [] name = "llm" -> "Llm"
      [] name = "utils" -> "Utils"

\* the envelopes of this model: a module, a type string and a payload object
\* whose fields are drawn from two keys and two values
TypeStrings == {"init_complete", "error", "recording_state"}
PayloadKeys == {"code", "message"}
PayloadValues == {"a", "b"}
Payloads == UNION {[K -> PayloadValues] : K \in SUBSET PayloadKeys}
Envelopes == [module : Variants, msg_type : TypeStrings, payload : Payloads]

\* serde_json::to_string of a ServerResponse, as the set of members of the JSON
\* object: module under its serde name, msg_type renamed to "type", and the
\* fields of the flattened payload beside them
ToJson(e) ==
    {<<"module", SnakeCase(e.module)>>, <<"type", e.msg_type>>}
        \cup {<<k, e.payload[k]>> : k \in DOMAIN e.payload}

Members(text, key) == {m \in text : m[1] = key}

\* serde_json::from_str::<ModuleMessage>: module and type are required and may
\* appear once, module must name a variant, and the flattened payload takes
\* every other member
FromStr(text) ==
    IF \/ Cardinality(Members(text, "module")) # 1
       \/ Cardinality(Members(text, "type")) # 1
    THEN JsonError
    ELSE LET module == (CHOOSE m \in Members(text, "module") : TRUE)[2]
             msg_type == (CHOOSE m \in Members(text, "type") : TRUE)[2]
             rest == {m \in text : m[1] \notin {"module", "type"}}
         IN  IF module \notin ModuleNames
             THEN JsonError
             ELSE [module |-> VariantOf(module),
                   msg_type |-> msg_type,
                   payload |-> [k \in {m[1] : m \in rest} |->
                                   (CHOOSE m \in rest : m[1] = k)[2]]]

\* send_response: serde_json::to_string(response)
Serialize(e) ==
    /\ sent = NoEnvelope
    /\ sent' = e
    /\ wire' = ToJson(e)
    /\ UNCHANGED <<val_cfg, val_result, parsed, frame_read, frame>>
    /\ UNCHANGED <<connVars, ptyVars, voiceVars, recVars, strVars, termVars, lockVars>>

\* parse_message on the text send_response produced
Parse ==
    /\ sent # NoEnvelope
    /\ parsed = NoEnvelope
    /\ parsed' = FromStr(wire)
    /\ UNCHANGED <<val_cfg, val_result, sent, wire, frame_read, frame>>
    /\ UNCHANGED <<connVars, ptyVars, voiceVars, recVars, strVars, termVars, lockVars>>

\* =========================================================================
\* Lock use of the tasks of a connection
\* =========================================================================
Lock(l) == <<"lock", l>>
Unlock(l) == <<"unlock", l>>
Send == <<"send">>
Read == <<"read">>
Recv == <<"recv">>
Write == <<"write">>
\* try_lock with the guard dropped at once, task.await, the end of a task
TryLock(l) == <<"try_lock", l>>
Join(t) == <<"join", t>>
End == <<"end">>

\* variants of the operator below, departing from the code
CodeWriteUnderSink(p) ==
    <<Lock("reader"), Read, Unlock("reader"), Lock("sink"), Send,
      Lock("writer"), Write, Unlock("writer"), Unlock("sink")>>
CodeReaderLocksSessions(p) ==
    IF p \in {"destroy", "cleanup_all"}
    THEN <<Lock("sessions"), TryLock("session"), Join("pty_reader"),
           Unlock("sessions")>>
    ELSE <<Lock("reader"), Read, Unlock("reader"), Lock("sessions"),
           Unlock("sessions"), End>>

\* the lock, send and read operations of each piece of code, in program
\* order; a guard is released where it is dropped or leaves its scope
Code(p) ==
    CASE p = "send_response" -> <<Lock("sink"), Send, Unlock("sink")>>
      [] p = "pong" -> <<Lock("sink"), Send, Unlock("sink")>>
      [] p = "send_message" ->
           <<Lock("ws_sender"), Lock("sink"), Send, Unlock("sink"),
             Unlock("ws_sender")>>
      [] p = "reader_output" ->
           <<Lock("reader"), Read, Unlock("reader"), Lock("sink"), Send,
             Unlock("sink"), Lock("writer"), Write, Unlock("writer")>>
      [] p = "reader_exit" ->
           <<Lock("reader"), Read, Unlock("reader"), Lock("sink"), Send,
             Unlock("sink"), End>>
      [] p = "reader_error" -> <<Lock("reader"), Read, Unlock("reader"), End>>
      [] p = "forward_level" -> <<Recv, Lock("sink"), Send, Unlock("sink")>>
      [] p = "send_partial" -> <<Lock("sink"), Send, Unlock("sink")>>
      [] p = "run_with_details" -> <<Recv, End>>
      [] p = "resize" ->
           <<Lock("sessions"), Lock("session"), Unlock("session"),
             Unlock("sessions")>>
      [] p = "write_data" ->
           <<Lock("sessions"), Lock("writer"), Write, Unlock("writer"),
             Unlock("sessions")>>
      [] p = "destroy" ->
           <<Lock("sessions"), TryLock("session"), Join("pty_reader"),
             Unlock("sessions")>>
      [] p = "cleanup_all" ->
           <<Lock("sessions"), TryLock("session"), Join("pty_reader"),
             Unlock("sessions")>>
      [] p = "start_recording" ->
           <<Lock("state"), Lock("ws_sender"), Unlock("ws_sender"),
             Unlock("state"), Lock("ws_sender"), Unlock("ws_sender")>>
      [] p = "stop_recording" ->
           <<Lock("state"), Unlock("state"), Join("realtime_task")>>
      [] p = "cancel_recording" -> <<Lock("state"), Unlock("state")>>

\* the code each task runs, one piece after the other
Programs(t) ==
    CASE t = "receive_loop" ->
           {"send_response", "pong", "send_message", "resize", "write_data",
            "destroy", "cleanup_all", "start_recording", "stop_recording",
            "cancel_recording"}
      [] t = "pty_reader" -> {"reader_output", "reader_exit", "reader_error"}
      [] t = "level_forwarder" -> {"forward_level"}
      [] t = "partial_sender" -> {"send_partial"}
      [] t = "realtime_task" -> {"run_with_details"}

\* the operation task t is about to do
NextOp(t) == Code(task_pc[t][1])[task_pc[t][2] + 1]

\* task t has done one more operation; it is idle again after the last one,
\* and done when that was the end of the task
Advance(t) ==
    [task_pc EXCEPT ![t] =
        IF NextOp(t) = End THEN Done
        ELSE IF task_pc[t][2] + 1 = Len(Code(task_pc[t][1]))
        THEN Idle ELSE <<task_pc[t][1], task_pc[t][2] + 1>>]

\* task t enters one of its pieces of code
Begin(t, p) ==
    /\ task_pc[t] = Idle
    /\ p \in Programs(t)
    /\ task_pc' = [task_pc EXCEPT ![t] = <<p, 0>>]
    /\ UNCHANGED <<held, hold_sends, partials>>
    /\ UNCHANGED <<connVars, ptyVars, voiceVars, recVars, strVars, termVars, pureVars>>

\* lock().await / lock().unwrap(): task t gets lock l once it is free
Acquire(t, l) ==
    /\ task_pc[t] \notin {Idle, Done}
    /\ NextOp(t) = Lock(l)
    /\ held[l] = "none"
    /\ held' = [held EXCEPT ![l] = t]
    /\ hold_sends' = IF l = "sink" THEN 0 ELSE hold_sends
    /\ task_pc' = Advance(t)
    /\ UNCHANGED partials
    /\ UNCHANGED <<connVars, ptyVars, voiceVars, recVars, strVars, termVars, pureVars>>

\* the guard of lock l is dropped
Release(t, l) ==
    /\ task_pc[t] \notin {Idle, Done}
    /\ NextOp(t) = Unlock(l)
    /\ held' = [held EXCEPT ![l] = IF @ = t THEN "none" ELSE @]
    /\ task_pc' = Advance(t)
    /\ UNCHANGED <<hold_sends, partials>>
    /\ UNCHANGED <<connVars, ptyVars, voiceVars, recVars, strVars, termVars, pureVars>>

\* a send on the sink, a PTY read or write, a receive from a channel, a
\* try_lock, the end of the task, or an await of a task that is done
Perform(t) ==
    /\ task_pc[t] \notin {Idle, Done}
    /\ NextOp(t)[1] \notin {"lock", "unlock"}
    /\ NextOp(t)[1] = "join" => task_pc[NextOp(t)[2]] = Done
    /\ hold_sends' = IF NextOp(t) = Send THEN hold_sends + 1 ELSE hold_sends
    /\ task_pc' = Advance(t)
    /\ UNCHANGED <<held, partials>>
    /\ UNCHANGED <<connVars, ptyVars, voiceVars, recVars, strVars, termVars, pureVars>>

\* =========================================================================
\* Properties
\* =========================================================================

IsOut(m) == m[1] = "out"
Outs(s) == SelectSeq(ptyOut[s], IsOut)

\* sessions whose handle_destroy has returned
destroyed ==
    {s \in created : /\ s \notin sessions \cup drained \cup cleaned
                     /\ ~(connPc = "destroy_wait" /\ cur = s)}

\* C1: whenever the receive loop is idle, the number of entries of the session
\* table is the number of successful inits minus the number of sessions that
\* were destroyed or whose child exited (reader saw EOF).
C1_TableCountsLiveSessions ==
    connPc = "recv" =>
        Cardinality(sessions) = (nextId - 1) - Cardinality(destroyed \cup eofSeen)

\* C2: when handle_connection has returned, by whatever path, no PTY child is
\* alive and no reader task, recorder or realtime task of the connection is
\* still running.
C2_CleanupOnEveryReturn ==
    connPc \in {"returned", "returned_err"} =>
        /\ \A s \in SessionIds : child[s] # "alive" /\ reader[s] \in {"none", "done"}
        /\ ~recorder /\ ~streaming_recorder /\ rt # "running"

\* C3: once cleanup_all has returned the session table is empty and the
\* reader of every session it drained has finished.
C3_CleanupAllJoinsReaders ==
    /\ \A s \in cleaned : reader[s] = "done" /\ child[s] = "dead" /\ s \notin sessions
    /\ connPc \in {"cleanup_voice", "returned"} =>
           sessions = {} /\ drained = {}
C3_Witness ==
    /\ connPc = "cleanup_voice"
    /\ Cardinality(cleaned) = 2
    /\ \E s \in cleaned : Len(Outs(s)) > 0

\* C4: every session whose reader has ended produced exactly one exit
\* envelope (the transport still accepting sends).
C4_OneExitPerTermination ==
    \A s \in SessionIds :
        (reader[s] = "done" /\ sinkOk) => Count(ptyOut[s], Exit) = 1

\* C5: every successful init created a session whose id differs from every
\* id created before (as many distinct sessions as successful inits, so no
\* table entry was overwritten), and produced exactly one init_complete for
\* it once the response was sent on a working transport.
C5_OneInitCompleteFreshId ==
    /\ Cardinality(created) = nextId - 1
    /\ sessions \subseteq created
    /\ \A s \in SessionIds :
         /\ Count(ptyOut[s], InitComplete) <= 1
         /\ s \notin created => ptyOut[s] = <<>>
         /\ (s \in created /\ sinkOk /\ ~(connPc = "init_respond" /\ cur = s))
               => Count(ptyOut[s], InitComplete) = 1
C5_Witness ==
    /\ Cardinality(created) = 2
    /\ \A s \in created : Count(ptyOut[s], InitComplete) = 1

\* C6: once destroy(S) has returned, no step sends a frame for S: neither an
\* output frame nor an exit envelope is appended to what crossed the sink.
C6_NoFrameAfterDestroy ==
    [][\A s \in destroyed : ptyOut'[s] = ptyOut[s]]_vars
C6_Witness ==
    \E s \in destroyed : Len(Outs(s)) > 0 /\ connPc = "recv" /\ sinkOk

\* C7: the output frames of a session are one per non-empty read of its
\* reader, in read order: the i-th frame carries the data of read i, and on
\* a working transport every read has its frame.
C7_OutputFramesInReadOrder ==
    \A s \in SessionIds :
        /\ \A i \in 1..Len(Outs(s)) : Outs(s)[i] = <<"out", s, i>>
        /\ Len(Outs(s)) <= readSeq[s]
        /\ sinkOk => Len(Outs(s)) = readSeq[s]
C7_Witness ==
    \E s \in SessionIds : Len(Outs(s)) = 2 /\ reader[s] = "read"

\* C8: a start while recording fails and changes nothing; a stop or cancel
\* while not recording fails and changes nothing; a stop or cancel of a
\* recording that started leaves the handler not recording, and a start while
\* not recording passes the check and opens a new recording.
C8_RecordingStateMachine ==
    [][/\ ((\E mode \in Modes, cfg \in Configs : VoiceStart(mode, cfg)) /\ is_recording)
            => /\ reply' = ErrorReply("voice", "already recording")
               /\ UNCHANGED <<connPc, voiceVars>>
       /\ ((VoiceStop \/ VoiceCancel) /\ ~is_recording)
            => /\ reply' = ErrorReply("voice", "not recording")
               /\ UNCHANGED <<connPc, voiceVars>>
       /\ ((VoiceStop \/ VoiceCancel) /\ is_recording /\ (recorder \/ streaming_recorder))
            => ~is_recording' /\ ~recorder' /\ ~streaming_recorder'
       /\ ((\E mode \in Modes, cfg \in Configs : VoiceStart(mode, cfg)) /\ ~is_recording)
            => is_recording' /\ gen' = gen + 1
      ]_vars
C8_Witness ==
    /\ gen = 2
    /\ staleLevels > 0
    /\ is_recording
    /\ recorder \/ streaming_recorder
    /\ reply = <<"voice", "error", "MODULE_ERROR", "already recording">>

\* C9: a start call that returned a device error leaves the recorder idle:
\* is_recording() is false.
C9_FailedStartLeavesIdle ==
    /\ rec_result \in DeviceErrors => ~rec_is_recording
    /\ str_result \in DeviceErrors => ~str_is_recording

\* C10: the handler starts recording only with an asr_config that passes
\* validation.
C10_InvalidConfigRejected ==
    [][(~is_recording /\ is_recording') => ValidateASRConfig(asr_config') = "ok"]_vars

\* C11: in an HTTP-mode recording that is started and then stopped, the voice
\* messages cross the sink in the order recording_state started, the
\* audio_level messages, recording_state stopped, transcription_complete: no
\* audio_level goes out before started or after stopped (stated for the first
\* recording of a connection, where no earlier recording's forwarder exists)
C11_HttpMessageOrder ==
    (gen = 1 /\ rt = "none" /\ fwd # "none") =>
        \A i \in 1..Len(voiceOut) :
            LET before(m) == \E j \in 1..(i - 1) : voiceOut[j] = m
            IN  /\ voiceOut[i] = AudioLevel => before(Started) /\ ~before(Stopped)
                /\ voiceOut[i] = Stopped => before(Started)
                /\ voiceOut[i][1] = "transcription_complete" => before(Stopped)

\* C12: a recording that is started and then cancelled emits recording_state
\* started and then recording_state cancelled, and neither a
\* transcription_complete nor an error for that recording, in HTTP mode and in
\* realtime mode: the cancel handler's only send is recording_state cancelled,
\* after which it returns to the receive loop
C12_CancelEmitsNoTerminal ==
    /\ [](\A i \in 1..Len(voiceOut) :
            voiceOut[i] = <<"recording_state", "cancelled">> =>
                /\ \A j \in 1..Len(voiceOut) :
                       /\ voiceOut[j][1] \notin {"transcription_complete", "error"}
                       /\ voiceOut[j] # Stopped
                       /\ voiceOut[j] = voiceOut[i] => j = i
                /\ fwd # "none" => \E j \in 1..(i - 1) : voiceOut[j] = Started)
    /\ [][(connPc = "cancel_send" /\ connPc' # "cancel_send") =>
            /\ connPc' = "recv"
            /\ voiceOut' = SinkSend(voiceOut, <<"recording_state", "cancelled">>)]_vars

\* a realtime recording was started and cancelled while its task was running
C12_Witness ==
    /\ rt = "aborted"
    /\ voiceOut = <<Started, <<"recording_state", "cancelled">>>>

\* C13: stopping a realtime recording fires the stop signal, stops the
\* streaming recorder and clears it, emits recording_state stopped, and only
\* then awaits the realtime task; after stopped it emits exactly one terminal
\* message, one transcription_complete or one error, whatever the task's
\* outcome (Success, Failed, panic)
C13_RealtimeStopOneTerminal ==
    /\ [][(connPc = "recv" /\ connPc' = "stop_send_stopped" /\ streaming_recorder) =>
            /\ ~stop_signal' /\ ~streaming_recorder' /\ ~realtime_task'
            /\ voiceOut' = voiceOut /\ rt' = rt]_vars
    /\ [][(connPc = "stop_send_stopped" /\ connPc' # connPc /\ stopRealtime) =>
            /\ voiceOut' = SinkSend(voiceOut, Stopped)
            /\ rt' = rt
            /\ sinkOk => connPc' = "stop_finish"]_vars
    /\ [][(connPc = "stop_finish" /\ connPc' # connPc /\ stopRealtime) =>
            /\ rt \in {"success", "failed", "panicked"}
            /\ connPc' = "recv"
            /\ sinkOk =>
                 /\ Len(voiceOut') = Len(voiceOut) + 1
                 /\ SubSeq(voiceOut', 1, Len(voiceOut)) = voiceOut
                 /\ voiceOut'[Len(voiceOut')][1] \in {"transcription_complete", "error"}
                 /\ rt = "success" => voiceOut'[Len(voiceOut')][1] = "transcription_complete"]_vars
    /\ [](rt # "none" =>
            LET terminals == {i \in 1..Len(voiceOut) :
                                voiceOut[i][1] \in {"transcription_complete", "error"}}
            IN  /\ Cardinality(terminals) <= 1
                /\ \A i \in terminals :
                       /\ rt = "joined"
                       /\ \E j \in 1..(i - 1) : voiceOut[j] = Stopped
                /\ (rt = "joined" /\ sinkOk) => Cardinality(terminals) = 1)

\* a realtime recording was stopped, its task had failed or panicked and the
\* fallback failed too: stopped, then one error
C13_Witness ==
    /\ rt = "joined"
    /\ \E i \in 1..Len(voiceOut) :
           /\ voiceOut[i][1] = "error"
           /\ \E j \in 1..(i - 1) : voiceOut[j] = Stopped

\* C14: in every transcription_complete message used_fallback is true exactly
\* when the text came from the fallback engine or from the primary engine
\* forced into HTTP mode; it is false when the primary engine answered in its
\* configured mode and when no engine ran
C14_UsedFallbackFlag ==
    [][(connPc = "stop_finish" /\ connPc' = "recv" /\ Len(voiceOut') > Len(voiceOut)) =>
          LET m == voiceOut'[Len(voiceOut')]
          IN  m[1] = "transcription_complete" =>
                  (m[3] <=> \/ m[2] = HttpName(asr_config.primary.provider)
                            \/ /\ asr_config.fallback # NoProvider
                               /\ m[2] = asr_config.fallback.provider)]_vars

\* C15: an error with code TRANSCRIPTION_FAILED is emitted only when every
\* transcription path tried for the recording has failed; for a realtime
\* recording both the realtime task and the HTTP fallback failed, and the
\* message then contains both underlying errors
C15_FailedMessageHasBothErrors ==
    [][(connPc = "stop_finish" /\ connPc' = "recv" /\ Len(voiceOut') > Len(voiceOut)) =>
          LET m == voiceOut'[Len(voiceOut')]
          IN  m[1] = "error" =>
                  /\ m[2] = "TRANSCRIPTION_FAILED"
                  /\ stopRealtime => /\ rt \in {"failed", "panicked"}
                                     /\ m[3] = "realtime_error"
                                     /\ m[4] = "fallback_error"
                  /\ ~stopRealtime => m[4] = "asr_error"]_vars

\* C16: a text frame that fails envelope parsing is forwarded as PTY input,
\* with no error reply, when a PTY session exists; otherwise exactly one error
\* with code PARSE_ERROR is sent, scoped to the module named by the payload's
\* module field when that is one of pty, voice, llm, utils, and to utils
\* otherwise
C16_UnparsableFrame ==
    [][\A f \in Frames : RecvUnparsable(f) =>
          IF sessions # {}
          THEN ptyIn' = ptyIn + 1 /\ reply' = NoReply
          ELSE /\ ptyIn' = ptyIn
               /\ sinkOk => reply' = <<IF f.module \in {"pty", "voice", "llm", "utils"}
                                       THEN f.module ELSE "utils",
                                       "error", "PARSE_ERROR", "parse failed">>]_vars

\* with no session, a frame without "type" that names the llm module was
\* answered
C16_Witness ==
    /\ sessions = {}
    /\ reply = <<"llm", "error", "PARSE_ERROR", "parse failed">>

\* C17: for every parsed envelope the router calls the handler of the
\* envelope's module, and the loop sends exactly one response when the handler
\* returns one, nothing when it returns None, and exactly one error scoped to
\* the envelope's module, with code MODULE_ERROR for a module error, when it
\* returns an error
C17_RouteAndRespond ==
    /\ [][\A f \in Frames : RecvEnvelope(f) =>
            /\ \E res \in (CASE f.module = "pty" -> PtyHandle(f)
                             [] f.module = "voice" -> VoiceHandle(f)
                             [] f.module = "llm" -> LlmHandle(f)
                             [] f.module = "utils" -> UtilsHandle(f)) :
                   CASE res[1] = "some" -> sinkOk => reply' = <<res[2], res[3], "", "">>
                     [] res[1] = "none" -> reply' = NoReply
                     [] res[1] = "err" ->
                            sinkOk => reply' = <<f.module, "error", "MODULE_ERROR", res[2]>>
            /\ ~sinkOk => reply' = NoReply]_vars
    /\ [][(PtyInit \/ \E s \in SessionIds, sz \in Sizes : PtyResize(s, sz)) =>
            \/ reply' = NoReply
            \/ /\ sinkOk
               /\ reply'[1] = "pty" /\ reply'[2] = "error" /\ reply'[3] = "MODULE_ERROR"]_vars
    /\ [][(connPc = "init_respond" /\ connPc' = "recv") =>
            /\ reply' = reply
            /\ ptyOut'[cur] = IF sinkOk THEN Append(ptyOut[cur], InitComplete)
                              ELSE ptyOut[cur]]_vars

\* an envelope for the voice module with a type the voice handler does not
\* know was answered
C17_Witness == reply = <<"voice", "error", "MODULE_ERROR", "unknown voice type">>

\* C19 as stated: resize(S, cols, rows) fails with SESSION_NOT_FOUND when S is
\* not in the table and changes nothing; when S is in the table it resizes
\* only S, sends no response, and leaves the table, the readers and the other
\* sessions unchanged
C19_ResizeAsStated ==
    [][\A s \in SessionIds, sz \in Sizes : PtyResize(s, sz) =>
          /\ UNCHANGED <<ptyVars, ptyIn, connPc>>
          /\ \A t \in SessionIds \ {s} : size'[t] = size[t]
          /\ IF s \in sessions
             THEN size'[s] = sz /\ reply' = NoReply
             ELSE /\ size' = size
                  /\ sinkOk => reply' = <<"pty", "error", "MODULE_ERROR",
                                          "SESSION_NOT_FOUND">>]_vars

\* C19 amended: as stated when the PTY accepts the new size; when the PTY
\* rejects it, nothing changes and one MODULE_ERROR error is sent
C19_Resize ==
    [][\A s \in SessionIds, sz \in Sizes : PtyResize(s, sz) =>
          /\ UNCHANGED <<ptyVars, ptyIn, connPc>>
          /\ \A t \in SessionIds \ {s} : size'[t] = size[t]
          /\ IF s \in sessions
             THEN \/ size'[s] = sz /\ reply' = NoReply
                  \/ /\ size' = size
                     /\ sinkOk => reply' = <<"pty", "error", "MODULE_ERROR",
                                             "resize failed">>
             ELSE /\ size' = size
                  /\ sinkOk => reply' = <<"pty", "error", "MODULE_ERROR",
                                          "SESSION_NOT_FOUND">>]_vars

\* of two sessions in the table the first was resized and the second kept
\* its size
C19_Witness ==
    /\ sessions = {1, 2}
    /\ size[1] = <<120, 40>>
    /\ size[2] = DefaultSize
    /\ reply = NoReply

\* C18: destroy(S) for an id that is not in the table fails with
\* SESSION_NOT_FOUND and leaves the table and the other sessions unchanged; of
\* two consecutive destroys of the same live session the first removes it
\* (kill, await the reader, drop the context) and the second fails with
\* SESSION_NOT_FOUND, since a removed id never returns to the table
C18_DestroyMissingAndTwice ==
    /\ [][\A s \in SessionIds : PtyDestroy(s) =>
            IF s \in sessions
            THEN /\ sessions' = sessions \ {s}
                 /\ child'[s] = "dead"
                 /\ \A t \in SessionIds \ {s} : child'[t] = child[t]
                 /\ reader' = reader
                 /\ connPc' = "destroy_wait" /\ cur' = s
                 /\ reply' = NoReply
            ELSE /\ UNCHANGED <<ptyVars, connPc>>
                 /\ sinkOk => reply' = <<"pty", "error", "MODULE_ERROR",
                                         "SESSION_NOT_FOUND">>]_vars
    /\ [][(connPc = "destroy_wait" /\ connPc' = "recv") =>
            /\ reader[cur] = "done"
            /\ cur \notin sessions'
            /\ reply' = NoReply]_vars
    /\ [][\A s \in SessionIds :
            (s \notin sessions /\ child[s] # "none") => s \notin sessions']_vars

\* a session was destroyed, another is still in the table, and a destroy
\* was answered with SESSION_NOT_FOUND
C18_Witness ==
    /\ destroyed # {}
    /\ sessions # {}
    /\ reply = <<"pty", "error", "MODULE_ERROR", "SESSION_NOT_FOUND">>

\* C20: when PTY init fails to spawn, the client receives an error with code
\* MODULE_ERROR, the table is unchanged and no reader task is started
C20_SpawnFailure ==
    /\ [][(PtyInit /\ nextId' = nextId) =>
            /\ UNCHANGED <<sessions, reader, child, readSeq, ptyOut, connPc>>
            /\ sinkOk => reply' = <<"pty", "error", "MODULE_ERROR", "spawn failed">>]_vars
    /\ [](\A s \in SessionIds : reader[s] # "none" => child[s] # "none")

\* with one session in the table, an init failed to spawn
C20_Witness ==
    /\ sessions = {1}
    /\ reader[2] = "none"
    /\ reply = <<"pty", "error", "MODULE_ERROR", "spawn failed">>

\* C21: when a session's reader task ends because of a read error, no exit
\* and no error is emitted for it, and the session stays in the table until a
\* destroy of that id or the connection cleanup removes it; that later destroy
\* succeeds: it removes the entry, finds the reader joinable and answers with
\* no error
C21_ReaderErrorKeepsEntry ==
    /\ [][\A s \in SessionIds :
            (reader[s] = "read" /\ reader'[s] = "done"
               /\ s \notin eofSeen' /\ readSeq'[s] = readSeq[s]) =>
                /\ ptyOut'[s] = ptyOut[s]
                /\ reply' = reply
                /\ sessions' = sessions]_vars
    /\ [][\A s \in SessionIds :
            (s \in sessions /\ s \notin sessions') =>
                \/ connPc' = "destroy_wait" /\ cur' = s /\ reply' = NoReply
                \/ connPc' = "cleanup_pty" /\ s \in drained']_vars
    /\ []((connPc = "destroy_wait" /\ reader[cur] = "done") => ENABLED DestroyAwait)

\* a session whose reader ended on a read error, with the transport working
\* and no zero-length read seen, was destroyed afterwards
C21_Witness ==
    \E s \in destroyed :
        /\ s \notin eofSeen
        /\ sinkOk
        /\ reader[s] = "done"
        /\ ptyOut[s] = <<InitComplete>>
        /\ reply = NoReply

\* C22: the voice cleanup at connection close never fails, whether or not a
\* recording is in progress; afterwards is_recording is false and the batch
\* recorder, the streaming recorder, the realtime task handle (its task
\* aborted), the stop signal and the level sender are absent; a cleanup run
\* on a state that is already clean changes nothing
C22_VoiceCleanup ==
    /\ [](connPc = "cleanup_voice" => ENABLED VoiceCleanup)
    /\ [][VoiceCleanup =>
            /\ ~is_recording' /\ recording_mode' = "none"
            /\ ~recorder' /\ ~streaming_recorder'
            /\ ~realtime_task' /\ ~stop_signal' /\ ~audio_level_tx'
            /\ (realtime_task /\ rt = "running") => rt' = "aborted"
            /\ (~is_recording /\ ~recorder /\ ~streaming_recorder /\ ~realtime_task
                  /\ ~stop_signal /\ ~audio_level_tx) => UNCHANGED voiceVars]_vars
    /\ [](connPc = "returned" =>
            /\ ~is_recording /\ ~recorder /\ ~streaming_recorder
            /\ ~realtime_task /\ ~stop_signal /\ ~audio_level_tx)

\* the connection closed during a realtime recording and the cleanup ran
C22_Witness ==
    /\ connPc = "returned"
    /\ rt = "aborted"
    /\ gen > 0
    /\ \A i \in 1..Len(voiceOut) : voiceOut[i] # Cancelled

\* C23: update_config replaces the stored ASR config and changes nothing else:
\* is_recording, the recording mode, both recorder slots, the realtime task
\* handle, the stop signal and the level sender are unchanged and no message
\* is emitted, whether or not a recording is in progress
C23_UpdateConfigFrame ==
    [][\A cfg \in Configs : VoiceUpdateConfig(cfg) =>
          /\ asr_config' = cfg
          /\ UNCHANGED <<is_recording, recording_mode, recorder, streaming_recorder,
                         realtime_task, stop_signal, audio_level_tx, rt, fwd, levelQ>>
          /\ voiceOut' = voiceOut
          /\ reply' = NoReply
          /\ connPc' = "recv"]_vars

\* during an HTTP-mode recording the stored config was replaced by a realtime
\* one
C23_Witness ==
    /\ is_recording
    /\ recorder
    /\ ~streaming_recorder
    /\ asr_config = DoubaoRealtime

\* C24: in every reachable state of a connection at most one recorder exists,
\* a recorder is present exactly when is_recording is true, and the realtime
\* task handle and the stop signal are present only together with a streaming
\* recorder
C24_RecorderInvariant ==
    /\ ~(recorder /\ streaming_recorder)
    /\ is_recording <=> (recorder \/ streaming_recorder)
    /\ (realtime_task \/ stop_signal) => streaming_recorder

\* C25: every chunk the streaming recorder puts on the chunk channel has
\* exactly CHUNK_SAMPLES (3,200) samples, and after every input callback the
\* pending buffer holds fewer than CHUNK_SAMPLES samples, whatever the sizes
\* of the callbacks
C25_ChunkSize ==
    /\ \A i \in 1..Len(str_chunks) : str_chunks[i].samples = CHUNK_SAMPLES
    /\ pending < CHUNK_SAMPLES

\* two callbacks that left a partial block behind after a chunk was sent
C25_Witness == str_audio = 2 /\ str_chunks # <<>> /\ pending > 0

\* C26: a streaming capture in which every block was classified non-active by
\* the VAD has put no chunk on the chunk channel
C26_SilentCaptureSendsNothing == ~str_active_seen => str_chunks = <<>>

\* blocks were classified, none of them active
C26_Witness == str_blocks >= 2 /\ ~str_active_seen /\ str_chunks = <<>>

\* the provider checks as the statement lists them
C27_ProviderFails(c) ==
    \/ c.provider = "qwen" /\ c.dashscope_api_key \in {NoKey, ""}
    \/ c.provider = "doubao"
         /\ (c.app_id \in {NoKey, ""} \/ c.access_token \in {NoKey, ""})
    \/ c.provider = "sensevoice"
         /\ (c.siliconflow_api_key \in {NoKey, ""} \/ c.mode = "realtime")

\* C27: a Qwen configuration without a non-empty dashscope_api_key fails, a
\* Doubao one with app_id or access_token missing or empty fails, a SenseVoice
\* one without a non-empty siliconflow_api_key or with mode Realtime fails, and
\* every other provider configuration passes; ASRConfig::validate passes
\* exactly when the primary passes and the fallback, when there is one,
\* passes, whatever enable_fallback is
C27_Validation ==
    val_result # "none" =>
        (val_result = "ok" <=>
            /\ ~C27_ProviderFails(val_cfg.primary)
            /\ val_cfg.fallback # NoProvider => ~C27_ProviderFails(val_cfg.fallback))

\* a configuration rejected for its fallback alone, with the fallback disabled
C27_Witness ==
    /\ val_result = "UnsupportedMode"
    /\ ~C27_ProviderFails(val_cfg.primary)
    /\ val_cfg.fallback # NoProvider
    /\ ~val_cfg.enable_fallback

\* C28: parsing the serialized form of an envelope (a module among pty,
\* voice, llm and utils, a type string and a payload of further fields)
\* yields an envelope with the same module, the same type and the same
\* payload fields
C28_RoundTrip ==
    parsed # NoEnvelope =>
        /\ parsed # JsonError
        /\ parsed.module = sent.module
        /\ parsed.msg_type = sent.msg_type
        /\ parsed.payload = sent.payload

\* an envelope with two payload fields went through the round trip
C28_Witness ==
    /\ parsed # NoEnvelope
    /\ sent.module = "Voice"
    /\ DOMAIN sent.payload = PayloadKeys

C30_SinkDiscipline ==
    [][\A t \in Tasks :
          (task_pc[t] \notin {Idle, Done} /\ task_pc'[t] # task_pc[t]) =>
              /\ NextOp(t) = Send => held["sink"] = t
              /\ NextOp(t) = Unlock("sink") => held["sink"] = t /\ hold_sends = 1
              /\ NextOp(t) = Read => held["sink"] # t
              /\ \A l \in Locks \ {"sink"} :
                     NextOp(t) = Lock(l) => held["sink"] # t
              /\ NextOp(t) = Lock("sink") => held["sink"] = "none"]_vars

\* the receive loop is in send_message and has sent under the sink lock while
\* the reader and the forwarder wait for that lock
C30_Witness ==
    /\ held["sink"] = "receive_loop"
    /\ hold_sends = 1
    /\ task_pc["receive_loop"] = <<"send_message", 3>>
    /\ task_pc["pty_reader"] = <<"reader_output", 3>>
    /\ task_pc["level_forwarder"] = <<"forward_level", 1>>

\* C31: stop_recording, cancel_recording and the voice cleanup leave the level
\* channel of the recording without a sender (the one in the connection state
\* and the one in the recorder's level callback are dropped), and the level
\* forwarder of that recording then terminates: it drains what is queued and
\* its loop ends
C31_ForwarderTerminates ==
    /\ [][(\/ connPc = "recv" /\ connPc' \in {"stop_send_stopped", "cancel_send"}
           \/ connPc = "cleanup_voice" /\ connPc' = "returned") => ~ChanOpen']_vars
    /\ \A g \in 1..MaxRecordings :
           (gen = g /\ fwd = "running" /\ ~ChanOpen) ~> (fwd = "done" \/ gen # g)
    /\ (staleLevels > 0) ~> (staleLevels = 0)

\* a forwarder that ended on the closed channel, the transport still working,
\* after it had forwarded a level
C31_Witness ==
    /\ fwd = "done"
    /\ sinkOk
    /\ ~ChanOpen
    /\ Count(voiceOut, AudioLevel) > 0

\* the number of blocks of act, from the i-th on, that are emitted when the
\* tail after an active block is VAD_HANGOVER_CHUNKS non-active blocks long;
\* q non-active blocks have passed since the last active one
RECURSIVE C32_Emitted(_, _, _, _)
C32_Emitted(q, seen, act, i) ==
    IF i > Len(act) THEN 0
    ELSE IF act[i] THEN 1 + C32_Emitted(0, TRUE, act, i + 1)
    ELSE (IF seen /\ q < VAD_HANGOVER_CHUNKS THEN 1 ELSE 0)
             + C32_Emitted(q + 1, seen, act, i + 1)

\* C32: the VAD hangover is a tail of 3 chunks: after a voice-active chunk the
\* next 3 consecutive non-active chunks are still put on the channel, and a
\* non-active chunk is dropped only once 3 non-active chunks have passed
\* since the last active one
C32_HangoverTail ==
    [][\A n \in CallbackSizes \ {(CHUNK_CHANNEL_BUFFER + 1) * CHUNK_SAMPLES} :
          \A act \in Classifications((pending + n) \div CHUNK_SAMPLES) :
              StrCallback(n, act) =>
                  Len(str_chunks') =
                      Len(str_chunks) + C32_Emitted(str_quiet, str_active_seen, act, 1)]_vars

\* C33: the chunk channel never holds more than CHUNK_CHANNEL_BUFFER (50)
\* chunks; a callback (the step that adds to str_audio) leaves the queued
\* chunks as they are and in order, and when the channel is full the chunks
\* it produces are discarded; a callback can run to its end whether or not
\* the channel is full
C33_ChunkChannelBound ==
    /\ [](Len(str_chunks) <= CHUNK_CHANNEL_BUFFER)
    /\ [][str_audio' = str_audio + 1 =>
             /\ Len(str_chunks') >= Len(str_chunks)
             /\ SubSeq(str_chunks', 1, Len(str_chunks)) = str_chunks
             /\ Len(str_chunks) = CHUNK_CHANNEL_BUFFER => str_chunks' = str_chunks
             /\ pending' < CHUNK_SAMPLES]_vars
    /\ []((str_stream /\ str_is_recording /\ str_audio < MaxAudio) =>
             ENABLED (\E act \in Classifications((pending + CHUNK_SAMPLES) \div CHUNK_SAMPLES) :
                          StrCallback(CHUNK_SAMPLES, act)))

\* the channel is full and the last block, classified active, is not in it
C33_Witness ==
    /\ Len(str_chunks) = CHUNK_CHANNEL_BUFFER
    /\ vad_hangover = VAD_HANGOVER_CHUNKS
    /\ str_chunks[CHUNK_CHANNEL_BUFFER].timestamp < str_blocks

\* the samples of the slices kept in a full-audio buffer
RECURSIVE C34_Samples(_)
C34_Samples(buf) == IF buf = <<>> THEN 0 ELSE Head(buf) + C34_Samples(Tail(buf))

\* C34: while the stream is recording, the full-audio buffer holds the data of
\* every callback in arrival order: a callback step appends its slice and
\* keeps the slices before it, whatever the VAD and the chunk channel did with
\* the blocks, so that every sample received is in the buffer (it is either
\* still pending or in a block that was classified); stop_streaming makes its
\* audio from that whole buffer and says the audio is empty only if it is
C34_FullAudioKeepsEveryCallback ==
    /\ []((str_stream /\ str_is_recording) =>
             /\ Len(full_audio_data) = str_audio
             /\ C34_Samples(full_audio_data) = pending + CHUNK_SAMPLES * str_blocks)
    /\ [][str_audio' = str_audio + 1 =>
             /\ Len(full_audio_data') = Len(full_audio_data) + 1
             /\ SubSeq(full_audio_data', 1, Len(full_audio_data)) = full_audio_data
             /\ full_audio_data'[Len(full_audio_data')] \in CallbackSizes]_vars
    /\ [][(str_is_recording /\ str_result' \in {"ok_empty", "ok_audio"}
              /\ ~str_is_recording') =>
             /\ full_audio_data' = full_audio_data
             /\ str_result' = "ok_empty" <=> full_audio_data = <<>>]_vars

\* a stopped capture whose two callbacks differ, the blocks of the second all
\* dropped by the VAD
C34_Witness ==
    /\ str_result = "ok_audio"
    /\ ~str_is_recording
    /\ Len(full_audio_data) = 2
    /\ full_audio_data[1] < full_audio_data[2]
    /\ str_blocks > Len(str_chunks)

\* C35: when the realtime task failed or panicked, the transcription_complete
\* of the HTTP fallback names the fallback engine if enable_fallback is set and
\* a fallback config exists, and otherwise the primary engine with "-http";
\* it never names the engine that was not chosen
C35_FallbackEngine ==
    [][(connPc = "stop_finish" /\ connPc' = "recv" /\ stopRealtime
          /\ rt \in {"failed", "panicked"} /\ Len(voiceOut') > Len(voiceOut)) =>
          LET m == voiceOut'[Len(voiceOut')]
          IN  m[1] = "transcription_complete" =>
                  m[2] = IF asr_config.enable_fallback /\ asr_config.fallback # NoProvider
                         THEN asr_config.fallback.provider
                         ELSE HttpName(asr_config.primary.provider)]_vars

\* C36: a binary output frame is [len][session_id][data]: its first byte is
\* the byte length of the session id, the session id follows, and the rest is
\* exactly the bytes of the one read it was built from, at least one and at
\* most READ_BUFFER (8192); a read of no bytes builds no frame
C36_FrameLayout ==
    frame_read # NoRead =>
        IF frame_read.bytes = <<>> THEN frame = <<>>
        ELSE /\ frame[1] \in 0..255
             /\ frame[1] = Len(frame_read.session_id)
             /\ SubSeq(frame, 2, 1 + frame[1]) = frame_read.session_id
             /\ SubSeq(frame, 2 + frame[1], Len(frame)) = frame_read.bytes
             /\ Len(frame) - 1 - frame[1] \in 1..READ_BUFFER

\* a frame of a read that left part of the buffer unused
C36_Witness ==
    /\ frame_read # NoRead
    /\ Len(frame_read.bytes) = 2
    /\ Len(frame) = 1 + 36 + 2

\* C37: for every session the init_complete response is the first of its
\* frames to cross the sink: no output frame and no exit envelope of the
\* session crosses before it
C37_InitCompleteFirst ==
    \A s \in SessionIds : ptyOut[s] # <<>> => ptyOut[s][1] = InitComplete

\* the terminal messages of a recording
C38_Terminal(m) ==
    \/ m[1] = "transcription_complete"
    \/ m[1] = "error"
    \/ m = Cancelled

\* C38: no transcription_progress of a recording crosses the sink after the
\* terminal message of that recording (transcription_complete, error, or
\* recording_state cancelled)
C38_NoProgressAfterTerminal ==
    \A i, j \in 1..Len(voiceOut) :
        (i < j /\ C38_Terminal(voiceOut[i])) => voiceOut[j] # Progress(gen)

\* C39: a start_recording that passed the already-recording check and then
\* returned an error (the recorder could not be created or started) leaves the
\* connection state as it was: is_recording false, no level sender, and a
\* next start_recording would pass the already-recording check
C39_FailedStartRestoresState ==
    [][\A mode \in Modes, cfg \in Configs :
          (VoiceStart(mode, cfg) /\ ~AlreadyRecording
             /\ reply' = ErrorReply("voice", "start failed")) =>
              /\ ~is_recording'
              /\ ~audio_level_tx'
              /\ ~AlreadyRecording']_vars

\* the task that task t is waiting for: the holder of the lock it is about to
\* take, or the unfinished task it awaits; "none" when t is not waiting
C40_WaitsFor(t) ==
    IF task_pc[t] \in {Idle, Done} THEN "none"
    ELSE IF NextOp(t)[1] = "lock" THEN held[NextOp(t)[2]]
    ELSE IF NextOp(t)[1] = "join" /\ task_pc[NextOp(t)[2]] # Done THEN NextOp(t)[2]
    ELSE "none"

\* the task reached from t by following n waits
RECURSIVE C40_After(_, _)
C40_After(t, n) ==
    IF n = 0 \/ t = "none" THEN t ELSE C40_After(C40_WaitsFor(t), n - 1)

\* C40: no reachable state is a deadlock among the tasks of a connection: the
\* waits of the tasks for locks and for awaited tasks form no cycle, and no
\* lock is left held by a task that is between two pieces of code or has
\* ended; and destroy and cleanup_all, which await the reader while they hold
\* the session-table lock, return once the reader has ended on EOF or an error
C40_NoDeadlock ==
    /\ [](\A t \in Tasks : \A n \in 1..Cardinality(Tasks) : C40_After(t, n) # t)
    /\ [](\A l \in Locks :
             held[l] # "none" => task_pc[held[l]] \notin {Idle, Done})
    /\ \A p \in {"destroy", "cleanup_all"} :
           (task_pc["receive_loop"][1] = p /\ task_pc["pty_reader"] = Done)
               ~> (task_pc["receive_loop"] = Idle)

\* destroy holds the session-table lock and awaits the reader, which has read
\* EOF and waits for the sink lock held by the level forwarder
C40_Witness ==
    /\ task_pc["receive_loop"] = <<"destroy", 2>>
    /\ held["sessions"] = "receive_loop"
    /\ task_pc["pty_reader"] = <<"reader_exit", 3>>
    /\ held["sink"] = "level_forwarder"

PtyNext ==
    \/ PtyInit
    \/ InitRespond
    \/ \E s \in SessionIds : PtyDestroy(s)
    \/ DestroyAwait
    \/ \E s \in SessionIds : ReaderIteration(s)
    \/ \E s \in SessionIds : CleanupKill(s)
    \/ CleanupAwait
    \/ CleanupAllReturn

ConnNext ==
    \/ TransportFail
    \/ RecvPing
    \/ RecvClose
    \/ VoiceCleanup

RecNext ==
    \/ \E mode \in Modes, dev \in DeviceOutcomes : RecStart(mode, dev)
    \/ RecCallback
    \/ RecStop
    \/ RecCancel
    \/ \E mode \in Modes, dev \in DeviceOutcomes : StrStart(mode, dev)
    \/ \E n \in CallbackSizes :
         \E act \in Classifications((pending + n) \div CHUNK_SAMPLES) :
            StrCallback(n, act)
    \/ StrStop
    \/ StrCancel

VoiceNext ==
    \/ \E mode \in Modes, cfg \in Configs : VoiceStart(mode, cfg)
    \/ VoiceStartSend
    \/ VoiceStop
    \/ VoiceStopSend
    \/ VoiceStopFinish
    \/ VoiceCancel
    \/ VoiceCancelSend
    \/ \E cfg \in Configs : VoiceUpdateConfig(cfg)
    \/ LevelCallback
    \/ ForwarderSend
    \/ ForwarderExit
    \/ StaleForwarderSend
    \/ RtFinish
    \/ StaleRtFinish

Next == PtyNext \/ ConnNext

Spec == Init /\ [][Next]_vars

\* the voice handler, its tasks and the connection loop
NextVoice == VoiceNext \/ ConnNext

SpecVoice == Init /\ [][NextVoice]_vars

\* the same with the spawned forwarders scheduled: a forwarder whose recv is
\* ready (a level queued, or the channel closed) gets to run
SpecVoiceLive ==
    /\ SpecVoice
    /\ WF_vars(ForwarderSend)
    /\ WF_vars(ForwarderExit)
    /\ WF_vars(StaleForwarderSend)

\* the two recorder objects driven by an arbitrary caller
\* the same with the partial texts of the realtime task and the detached
\* tasks that send them
PartialNext ==
    \/ RtPartial
    \/ \E g \in 1..MaxRecordings : PartialSend(g)

SpecPartial == Init /\ [][NextVoice \/ PartialNext]_vars

SpecRec == Init /\ [][RecNext]_vars

\* the text frames of the receive loop that create, resize and feed sessions,
\* and those answered without a session
TextNext ==
    \/ PtyInit
    \/ InitRespond
    \/ \E s \in SessionIds, sz \in Sizes : PtyResize(s, sz)
    \/ \E f \in Frames : RecvEnvelope(f)
    \/ \E f \in Frames : RecvUnparsable(f)
    \/ TransportFail

SpecText == Init /\ [][TextNext]_vars

\* ASRConfig::validate on every configuration
ValidateNext == val_result = "none" /\ \E cfg \in ASRConfigs : Validate(cfg)

SpecValidate == Init /\ [][ValidateNext]_vars

\* a response serialized by send_response and parsed back by parse_message
EnvelopeNext ==
    \/ \E e \in Envelopes : Serialize(e)
    \/ Parse

SpecEnvelope == Init /\ [][EnvelopeNext]_vars

\* the tasks of one connection interleaving their lock and send operations
SinkNext ==
    \/ \E t \in Tasks : \E p \in Programs(t) : Begin(t, p)
    \/ \E t \in Tasks, l \in Locks : Acquire(t, l)
    \/ \E t \in Tasks, l \in Locks : Release(t, l)
    \/ \E t \in Tasks : Perform(t)

SpecSink == Init /\ [][SinkNext]_vars

\* the same with the receive loop scheduled: when its next operation can be
\* done and stays so, it is done
SpecSinkLive ==
    /\ SpecSink
    /\ WF_vars(\/ Perform("receive_loop")
               \/ \E l \in Locks : Acquire("receive_loop", l)
               \/ \E l \in Locks : Release("receive_loop", l))

\* one read of a PTY reader framed for the client
FrameNext ==
    frame_read = NoRead /\ \E session_id \in UuidStrings, bytes \in ReadData :
                              BuildFrame(session_id, bytes)

SpecFrame == Init /\ [][FrameNext]_vars

====
